---- MODULE Spec2Model ----
(***************************************************************************)
(* A model of toast's manifest validator (src/src/toastfile.rs): `parse`   *)
(* with its checks `check_paths`, `check_caching`, `check_dependencies`,   *)
(* and the environment resolution `environment`; and of its runtime        *)
(* adapter (src/src/docker.rs): the four subprocess wrappers `run_quiet`,  *)
(* `run_quiet_stdin`, `run_loud_stdin`, `run_attach` with the interruption *)
(* flag, the operations built on them, and `copy_from_container` over a    *)
(* host filesystem.                                                        *)
(*                                                                         *)
(* Strings that are assembled by `format!` are modelled as sequences of    *)
(* fragments: the literal pieces of the format string and the values that  *)
(* fill its holes; the text of one is the characters of its fragments.     *)
(* An `Option<T>` is a sequence of length at most one.                     *)
(* A `PathBuf` is the sequence of its components, "/" being the root.      *)
(* A `HashMap` is a function; its iteration order is a free choice.        *)
(***************************************************************************)
EXTENDS Integers, Sequences, FiniteSets, TLC

VARIABLES
    toastfile_data,   \* the manifest handed to parse, as a parsed value tree
    pc,               \* the position of parse / environment
    toastfile,        \* the deserialized Toastfile (None before that)
    result,           \* what parse returns
    checks,           \* the checks parse has called so far, in order
    violations,       \* check_dependencies: task -> its missing dependencies
    remaining,        \* check_dependencies: tasks the outer loop has not begun
    visited,          \* check_dependencies: visited
    frontier,         \* check_dependencies: frontier, a stack of <<task, depth>>
    ancestors_set,    \* check_dependencies: ancestors_set
    ancestors_stack,  \* check_dependencies: ancestors_stack
    cycle,            \* check_dependencies: the cycle it found
    pops,             \* check_dependencies: number of frontier pops so far
    outer_task,       \* check_dependencies: `task` of the outer loop, inside an iteration
    task,             \* environment: the task it is called with
    host_env,         \* environment: the host's environment variables
    env_remaining,    \* environment: entries the loop has not reached
    env_violations,   \* environment: violations
    env_result,       \* environment: result map
    env_return,       \* what environment returns
    interrupted,      \* docker: the interruption flag shared with the signal handler
    op,               \* docker: the operation in progress
    dpc,              \* docker: the position of the operation
    was_interrupted,  \* run_*: was_interrupted
    child,            \* run_*: the child: "none", "running" or "exited"
    status,           \* run_*: the exit status of the child, once it has one
    child_stdout,     \* run_*: what the child wrote to its standard output
    orphans,          \* children dropped while running that have not ended yet
    run_result,       \* what run_* returns
    op_result,        \* what the operation returns
    ops_done,         \* the number of operations that have returned
    args,             \* command: the argument vector of the child
    post_read,        \* run_*: the flag as read after the child ended, if read
    invoked_interrupted, \* the flag at the moment the operation was invoked
    spawned,          \* the operation has spawned a child
    fs,               \* copy_from_container: the host filesystem
    todo,             \* copy_from_container: the paths the loop has not begun
    temp_dir,         \* copy_from_container: temp_dir
    temps,            \* the number of temporary directories created so far
    entries,          \* copy_from_container: what the walk has yet to yield
    copied,           \* copy_from_container: the copy-outs started, in order
    first_tree        \* the destination tree after the first successful copy

vars == <<toastfile_data, pc, toastfile, result, checks, violations, remaining,
          visited, frontier, ancestors_set, ancestors_stack, cycle, pops,
          outer_task, task, host_env, env_remaining, env_violations, env_result, env_return,
          interrupted, op, dpc, was_interrupted, child, status, child_stdout,
          orphans, run_result, op_result, ops_done, args, post_read,
          invoked_interrupted, spawned,
          fs, todo, temp_dir, temps, entries, copied, first_tree>>

parse_vars == <<toastfile_data, toastfile, result, checks, violations, remaining,
                visited, frontier, ancestors_set, ancestors_stack, cycle, pops,
                outer_task>>

cycle_vars == <<remaining, visited, frontier, ancestors_set, ancestors_stack,
                cycle, pops, outer_task>>

env_vars == <<task, host_env, env_remaining, env_violations, env_result, env_return>>

run_vars == <<interrupted, op, dpc, was_interrupted, child, status, child_stdout,
              orphans, run_result, op_result, ops_done, args, post_read,
              invoked_interrupted, spawned>>

copy_vars == <<fs, todo, temp_dir, temps, entries, copied, first_tree>>

docker_vars == <<run_vars, copy_vars>>

---------------------------------------------------------------------------
(* Bounds of the enumerated inputs. *)

\* the longest dependencies list of a task in the graph inputs
MaxDeps == 2
\* the longest input_paths / output_paths list of a task
MaxPaths == 1
\* the most dependency entries of a whole manifest in the graph inputs
MaxEdges == 6
\* the longest ports list create_container is called with
MaxPorts == 2
\* the number of adapter operations invoked one after the other
MaxOps == 2
\* the longest paths list copy_from_container is called with
MaxCopyPaths == 2

---------------------------------------------------------------------------
(* Generic helpers. *)

SeqsUpTo(S, n) == UNION {[1..k -> S] : k \in 0..n}

Range(s) == {s[i] : i \in DOMAIN s}

EmptyMap == [k \in {} |-> TRUE]

\* the orders in which a HashMap with key set S may be iterated
Orders(S) == {o \in [1..Cardinality(S) -> S] : \A i, j \in DOMAIN o : o[i] = o[j] => i = j}

None == <<>>
Some(x) == <<x>>

---------------------------------------------------------------------------
(* The format module, which builds the messages of the validator. *)

\* the backquote character that code_str puts around its argument
Backquote == "<backquote>"

CodeStr(s) == <<Backquote, s, Backquote>>

\* the characters of the property White_Space that have no escape in a string
\* of this module, each written by its code point
WhitespaceCodePoints ==
    {"<U+000B>", "<U+0085>", "<U+00A0>", "<U+1680>", "<U+2000>", "<U+2001>", "<U+2002>",
     "<U+2003>", "<U+2004>", "<U+2005>", "<U+2006>", "<U+2007>", "<U+2008>", "<U+2009>",
     "<U+200A>", "<U+2028>", "<U+2029>", "<U+202F>", "<U+205F>", "<U+3000>"}

\* the fragments that stand for one character each
NamedCharacters == {Backquote} \cup WhitespaceCodePoints

\* the pieces of two texts written one after the other
Glue(a, b) ==
    IF a # <<>> /\ b # <<>> /\ a[Len(a)] \notin NamedCharacters
          /\ b[1] \notin NamedCharacters
    THEN SubSeq(a, 1, Len(a) - 1) \o <<a[Len(a)] \o b[1]>> \o Tail(b)
    ELSE a \o b

\* the text of a message, whatever the fragments it was assembled from: each
\* named character by itself, and the characters between two of them as one
\* string
RECURSIVE PiecesBetween(_, _, _)
PiecesBetween(msg, from, to) ==
    IF from > to THEN <<>>
    ELSE IF from = to THEN (IF msg[from] = "" THEN <<>> ELSE <<msg[from]>>)
    ELSE Glue(PiecesBetween(msg, from, (from + to) \div 2),
              PiecesBetween(msg, (from + to) \div 2 + 1, to))

Pieces(msg) ==
    IF \A i \in DOMAIN msg :
          /\ msg[i] # ""
          /\ i = 1 \/ msg[i - 1] \in NamedCharacters \/ msg[i] \in NamedCharacters
    THEN msg
    ELSE PiecesBetween(msg, 1, Len(msg))

\* a piece of a pattern lies on a piece of a text: a named character on
\* itself; a string anywhere in a string when it is the whole pattern, at its
\* end when the pattern goes on, at its start when the pattern began before,
\* and all over it otherwise
PieceMatches(piece, p, first, last) ==
    IF piece \in NamedCharacters \/ p \in NamedCharacters THEN piece = p
    ELSE IF Len(p) > Len(piece) THEN FALSE
    ELSE IF first /\ last
    THEN \E i \in 0..(Len(piece) - Len(p)) : SubSeq(piece, i + 1, i + Len(p)) = p
    ELSE IF first THEN SubSeq(piece, Len(piece) - Len(p) + 1, Len(piece)) = p
    ELSE IF last THEN SubSeq(piece, 1, Len(p)) = p
    ELSE piece = p

\* str::contains: the text of sub occurs in the text of msg
\* the pieces of a text hold the pieces of a pattern, one after the other
Within(text, pattern) ==
    \/ pattern = <<>>
    \/ \E j \in 0..(Len(text) - Len(pattern)) :
          \A k \in 1..Len(pattern) :
              PieceMatches(text[j + k], pattern[k], k = 1, k = Len(pattern))

ContainsRun(msg, sub) == Within(Pieces(msg), Pieces(sub))

\* str::contains, for a pattern of one fragment
Contains(msg, frag) == ContainsRun(msg, <<frag>>)

RECURSIVE Join(_, _)
Join(items, sep) ==
    IF items = <<>> THEN <<>>
    ELSE IF Len(items) = 1 THEN items[1]
    ELSE items[1] \o sep \o Join(Tail(items), sep)

series(items) ==
    IF Len(items) = 0 THEN <<>>
    ELSE IF Len(items) = 1 THEN items[1]
    ELSE IF Len(items) = 2 THEN items[1] \o <<" and ">> \o items[2]
    ELSE Join(SubSeq(items, 1, Len(items) - 1), <<", ">>)
             \o <<", and ">> \o items[Len(items)]

---------------------------------------------------------------------------
(* Paths. *)

RootDir == "/"

is_absolute(path) == Len(path) > 0 /\ path[1] = RootDir

is_relative(path) == ~is_absolute(path)

RECURSIVE JoinComponents(_)
JoinComponents(cs) ==
    IF cs = <<>> THEN ""
    ELSE IF Len(cs) = 1 THEN cs[1]
    ELSE cs[1] \o "/" \o JoinComponents(Tail(cs))

to_string_lossy(path) ==
    IF is_absolute(path) THEN RootDir \o JoinComponents(Tail(path))
    ELSE JoinComponents(path)

---------------------------------------------------------------------------
(* The manifest model: Task, Toastfile and their deserialization. *)

DEFAULT_LOCATION == <<RootDir, "scratch">>

DEFAULT_USER == "root"

default_task_cache == TRUE

default_task_watch == FALSE

default_task_location == DEFAULT_LOCATION

default_task_user == DEFAULT_USER

\* the fields of struct Task, in the order of their declaration
TaskFieldNames == <<"dependencies", "cache", "environment", "watch", "input_paths",
                    "output_paths", "ports", "location", "user", "command">>

TaskFields == Range(TaskFieldNames)

\* the fields of struct Toastfile, in the order of their declaration
ToastfileFieldNames == <<"image", "default", "tasks">>

ToastfileFields == Range(ToastfileFieldNames)

\* the Toastfile fields that are neither Option nor #[serde(default)]
RequiredToastfileFields == <<"image", "tasks">>

\* Field, were a given value dropped in favour of the default
FieldDefaultOnly(raw, key, dflt) == dflt

\* a field of a mapping, or the serde default when the key is absent
Field(raw, key, dflt) == IF key \in DOMAIN raw THEN raw[key] ELSE dflt

\* an Option field of a mapping: None when the key is absent
OptionField(raw, key) == IF key \in DOMAIN raw THEN Some(raw[key]) ELSE None

DeserializeTask(raw) ==
    [dependencies |-> Field(raw, "dependencies", <<>>),
     cache        |-> Field(raw, "cache", default_task_cache),
     environment  |-> Field(raw, "environment", EmptyMap),
     watch        |-> Field(raw, "watch", default_task_watch),
     input_paths  |-> Field(raw, "input_paths", <<>>),
     output_paths |-> Field(raw, "output_paths", <<>>),
     ports        |-> Field(raw, "ports", <<>>),
     location     |-> Field(raw, "location", default_task_location),
     user         |-> Field(raw, "user", default_task_user),
     command      |-> OptionField(raw, "command")]

DeserializeToastfile(raw) ==
    [image   |-> raw["image"],
     default |-> OptionField(raw, "default"),
     tasks   |-> [name \in DOMAIN raw["tasks"] |-> DeserializeTask(raw["tasks"][name])]]

\* UnknownFields, were deny_unknown_fields missing on struct Task
UnknownFieldsTopLevel(raw) == DOMAIN raw \ ToastfileFields

\* the keys that #[serde(deny_unknown_fields)] refuses, at either level
UnknownFields(raw) ==
    (DOMAIN raw \ ToastfileFields)
        \cup (IF "tasks" \in DOMAIN raw
              THEN UNION {DOMAIN raw["tasks"][name] \ TaskFields : name \in DOMAIN raw["tasks"]}
              ELSE {})

\* the required Toastfile fields the mapping lacks, in declaration order
MissingFields(raw) ==
    SelectSeq(RequiredToastfileFields, LAMBDA key : key \notin DOMAIN raw)

\* serde's list of the names a key may have: "`a`", "`a` or `b`", or
\* "one of `a`, `b`, `c`"
OneOf(names) ==
    IF Len(names) = 1 THEN CodeStr(names[1])
    ELSE IF Len(names) = 2 THEN CodeStr(names[1]) \o <<" or ">> \o CodeStr(names[2])
    ELSE <<"one of ">> \o Join([i \in DOMAIN names |-> CodeStr(names[i])], <<", ">>)

\* the error of a key that the struct with the given fields does not have
UnknownFieldMessage(key, fields) ==
    <<"unknown field ">> \o CodeStr(key) \o <<", expected ">> \o OneOf(fields)

\* the error of a required field that the mapping lacks
MissingFieldMessage(key) == <<"missing field ">> \o CodeStr(key)

\* what the YAML front end appends to the message of serde: the place in the
\* text where it stopped; the text is not part of the value tree, so the two
\* numbers are left open
PositionSuffix == <<" at line ", "<line>", " column ", "<column>">>

\* the messages serde_yaml::from_str may fail with (empty when it succeeds)
DeserializeErrors(raw) ==
    LET refused == UnknownFields(raw)
        top == refused \cap (DOMAIN raw \ ToastfileFields)
        nested == IF "tasks" \in DOMAIN raw
                  THEN refused \cap UNION {DOMAIN raw["tasks"][name] \ TaskFields :
                                             name \in DOMAIN raw["tasks"]}
                  ELSE {}
    IN  IF refused # {}
        THEN {UnknownFieldMessage(key, ToastfileFieldNames) \o PositionSuffix : key \in top}
                 \cup {UnknownFieldMessage(key, TaskFieldNames) \o PositionSuffix :
                          key \in nested}
        ELSE IF MissingFields(raw) # <<>>
        THEN {MissingFieldMessage(MissingFields(raw)[1]) \o PositionSuffix}
        ELSE {}

\* the value of `toastfile` before serde has produced one
NoToastfile == [image |-> "", default |-> None, tasks |-> EmptyMap]

Pending == [status |-> "Pending", message |-> <<>>]

Ok == [status |-> "Ok", message |-> <<>>]

Err(message) == [status |-> "Err", message |-> message]

\* a panic of the thread (an unwrap of None, an index out of a map, an overflow)
Panic(what) == [status |-> "Panic", message |-> <<what>>]

---------------------------------------------------------------------------
(* The manifests the model is run on. *)

TaskNames == {"foo", "bar", "baz"}

Image == "encom:os-12"

Manifest(tasks, default) ==
    ("image" :> Image) @@ ("tasks" :> tasks)
        @@ (IF default = None THEN EmptyMap ELSE "default" :> default[1])

Defaults(names) == {None} \cup {Some(name) : name \in names}

\* manifests that differ in the dependency graph only; every name resolves
\* when all three tasks are present
GraphTask(dependencies) ==
    IF dependencies = <<>> THEN EmptyMap ELSE "dependencies" :> dependencies

RECURSIVE CountEntries(_, _)
CountEntries(deps, names) ==
    IF names = {} THEN 0
    ELSE LET name == CHOOSE n \in names : TRUE
         IN  Len(deps[name]) + CountEntries(deps, names \ {name})

IsGraphManifest(data) ==
    \E names \in SUBSET TaskNames :
        \E deps \in [names -> SeqsUpTo(TaskNames, MaxDeps)] :
            /\ CountEntries(deps, names) <= MaxEdges
            /\ data = Manifest([name \in names |-> GraphTask(deps[name])], None)

\* manifests of at most two tasks whose dependencies and default may name
\* tasks that do not exist
DependencyNames == TaskNames \cup {"qux"}

IsExistenceManifest(data) ==
    \E names \in SUBSET {"foo", "bar"} :
        \E deps \in [names -> SeqsUpTo(DependencyNames, MaxDeps)] :
            \E default \in Defaults(DependencyNames) :
                data = Manifest([name \in names |-> GraphTask(deps[name])], default)

\* tasks that differ in the fields check_paths and check_caching read
InputPathPool == {<<"src">>, <<RootDir, "src">>}

OutputPathPool == {<<"out">>, <<RootDir, "out">>}

LocationPool == {<<RootDir, "work">>, <<"work">>}

PortPool == {"3000:80"}

PathTasks ==
    {("input_paths" :> input_paths) @@ ("output_paths" :> output_paths)
        @@ ("location" :> location) :
        input_paths \in SeqsUpTo(InputPathPool, MaxPaths),
        output_paths \in SeqsUpTo(OutputPathPool, MaxPaths),
        location \in LocationPool}

CachingTasks ==
    {("cache" :> cache) @@ ("ports" :> ports) @@ ("watch" :> watch) :
        cache \in BOOLEAN,
        ports \in SeqsUpTo(PortPool, 1),
        watch \in BOOLEAN}

FieldTasks == {paths @@ caching : paths \in PathTasks, caching \in CachingTasks}

\* one task with every combination of fields, dependencies and default
IsOneTaskManifest(data) ==
    \E fields \in FieldTasks :
        \E dependencies \in {<<>>, <<"foo">>, <<"bar">>} :
            \E default \in Defaults({"foo", "bar"}) :
                data = Manifest("foo" :> (fields @@ GraphTask(dependencies)), default)

\* two tasks, each with path fields or with caching fields
IsTwoTaskManifest(data) ==
    \E foo \in PathTasks \cup CachingTasks :
        \E bar \in PathTasks \cup CachingTasks :
            data = Manifest(("foo" :> foo) @@ ("bar" :> bar), None)

\* mappings that differ in the keys they hold
SampleTasks ==
    {EmptyMap,
     "bogus" :> "x",
     "dependencies" :> <<"foo">>,
     "dependencies" :> <<"qux">>,
     "cache" :> FALSE,
     "environment" :> ("SPAM" :> None),
     "watch" :> TRUE,
     "input_paths" :> <<<<"src">>>>,
     "input_paths" :> <<<<RootDir, "src">>>>,
     "output_paths" :> <<<<"out">>>>,
     "ports" :> <<"3000:80">>,
     "location" :> <<RootDir, "work">>,
     "user" :> "waldo",
     "command" :> "wibble",
     ("bogus" :> "x") @@ ("input_paths" :> <<<<RootDir, "src">>>>),
     ("bogus" :> "x") @@ ("ports" :> <<"3000:80">>),
     ("bogus" :> "x") @@ ("dependencies" :> <<"foo">>)}

IsKeyManifest(data) ==
    \E hasImage \in BOOLEAN :
        \E default \in Defaults({"foo", "bar"}) :
            \E tasks \in {None, Some(EmptyMap)} \cup {Some("foo" :> t) : t \in SampleTasks} :
                \E hasBogus \in BOOLEAN :
                    data = (IF hasImage THEN "image" :> Image ELSE EmptyMap)
                            @@ (IF default = None THEN EmptyMap ELSE "default" :> default[1])
                            @@ (IF tasks = None THEN EmptyMap ELSE "tasks" :> tasks[1])
                            @@ (IF hasBogus THEN "bogus" :> "x" ELSE EmptyMap)

\* the manifests parse is run on
IsManifest(data) ==
    \/ IsGraphManifest(data)
    \/ IsExistenceManifest(data)
    \/ IsOneTaskManifest(data)
    \/ IsTwoTaskManifest(data)
    \/ IsKeyManifest(data)

---------------------------------------------------------------------------
(* check_paths *)

\* the first path of a list that is absolute, if any
FirstAbsolute(paths) ==
    LET hits == {i \in DOMAIN paths : is_absolute(paths[i])}
    IN  IF hits = {} THEN None
        ELSE Some(paths[CHOOSE i \in hits : \A j \in hits : i <= j])

InputPathLabel == "input_path"

OutputPathLabel == "ouput_path"

LocationLabel == "location"

PathMessage(name, kind, label, path) ==
    <<"Task ">> \o CodeStr(name) \o <<kind>> \o CodeStr(label)
        \o <<": ">> \o CodeStr(to_string_lossy(path)) \o <<".">>

\* the body of the loop of check_paths for one task: the error it returns, if any
TaskPathError(name, t) ==
    IF FirstAbsolute(t.input_paths) # None
    THEN Some(PathMessage(name, " has an absolute ", InputPathLabel,
                          FirstAbsolute(t.input_paths)[1]))
    ELSE IF FirstAbsolute(t.output_paths) # None
    THEN Some(PathMessage(name, " has an absolute ", OutputPathLabel,
                          FirstAbsolute(t.output_paths)[1]))
    ELSE IF is_relative(t.location)
    THEN Some(PathMessage(name, " has a relative ", LocationLabel, t.location))
    ELSE None

\* check_paths, were only the first task of the iteration examined
check_paths_first_task(tf) ==
    IF DOMAIN tf.tasks = {} THEN {Ok}
    ELSE {IF TaskPathError(name, tf.tasks[name]) # None
          THEN Err(TaskPathError(name, tf.tasks[name])[1])
          ELSE Ok : name \in DOMAIN tf.tasks}

\* the results check_paths may return: the error of the first task, in the
\* iteration order of the map, that has one
check_paths(tf) ==
    LET bad == {name \in DOMAIN tf.tasks : TaskPathError(name, tf.tasks[name]) # None}
    IN  IF bad = {} THEN {Ok}
        ELSE {Err(TaskPathError(name, tf.tasks[name])[1]) : name \in bad}

---------------------------------------------------------------------------
(* check_caching *)

PortsMessage(name) ==
    <<"Task ">> \o CodeStr(name)
        \o <<" exposes ports but does not disable caching. To fix this, set ">>
        \o CodeStr("cache: false") \o <<" for this task.">>

WatchMessage(name) ==
    <<"Task ">> \o CodeStr(name)
        \o <<" watches the filesystem but does not disable caching. To fix this, set ">>
        \o CodeStr("cache: false") \o <<" for this task.">>

\* TaskCachingError, were the test of `watch` left out
TaskCachingErrorPortsOnly(name, t) ==
    IF t.ports # <<>> /\ t.cache THEN Some(PortsMessage(name)) ELSE None

\* the body of the loop of check_caching for one task
TaskCachingError(name, t) ==
    IF t.ports # <<>> /\ t.cache THEN Some(PortsMessage(name))
    ELSE IF t.watch /\ t.cache THEN Some(WatchMessage(name))
    ELSE None

check_caching(tf) ==
    LET bad == {name \in DOMAIN tf.tasks : TaskCachingError(name, tf.tasks[name]) # None}
    IN  IF bad = {} THEN {Ok}
        ELSE {Err(TaskCachingError(name, tf.tasks[name])[1]) : name \in bad}

---------------------------------------------------------------------------
(* check_dependencies: the default task and the dependencies that exist *)

\* valid_default, were the default task never looked up
valid_default_unchecked(tf) == TRUE

valid_default(tf) == tf.default = None \/ tf.default[1] \in DOMAIN tf.tasks

\* InvalidDependencies, were the scan to stop at the first missing name of a task
InvalidDependenciesFirstOnly(tf, name) ==
    LET all == SelectSeq(tf.tasks[name].dependencies, LAMBDA d : d \notin DOMAIN tf.tasks)
    IN  IF all = <<>> THEN <<>> ELSE <<all[1]>>

\* the dependencies of a task that are no key of the task map, in order
InvalidDependencies(tf, name) ==
    SelectSeq(tf.tasks[name].dependencies, LAMBDA d : d \notin DOMAIN tf.tasks)

\* ScanViolations, were the scan to record nothing
ScanViolationsNone(tf) == EmptyMap

\* the map `violations` after the scan
ScanViolations(tf) ==
    [name \in {n \in DOMAIN tf.tasks : InvalidDependencies(tf, n) # <<>>} |->
        InvalidDependencies(tf, name)]

ViolationItem(name, dependencies) ==
    CodeStr(name) \o <<" (">>
        \o series([i \in DOMAIN dependencies |-> CodeStr(dependencies[i])])
        \o <<")">>

\* violations_series, the map being iterated in the given order
ViolationsSeries(viol, order) ==
    series([i \in DOMAIN order |-> ViolationItem(order[i], viol[order[i]])])

\* ExistenceResults, were the violations collected but never reported
ExistenceResultsUnreported(tf) == {Ok}

\* the results of the first half of check_dependencies; Ok stands for
\* falling through to the cycle detection
ExistenceResults(tf) ==
    LET viol == ScanViolations(tf)
    IN  IF DOMAIN viol # {}
        THEN IF valid_default(tf)
             THEN {Err(<<"The following tasks have invalid dependencies: ">>
                        \o ViolationsSeries(viol, order) \o <<".">>) :
                     order \in Orders(DOMAIN viol)}
             ELSE {Err(<<"The default task ">> \o CodeStr(tf.default[1])
                        \o <<" does not exist, and the following tasks have invalid dependencies: ">>
                        \o ViolationsSeries(viol, order) \o <<".">>) :
                     order \in Orders(DOMAIN viol)}
        ELSE IF ~valid_default(tf)
        THEN {Err(<<"The default task ">> \o CodeStr(tf.default[1])
                   \o <<" does not exist.">>)}
        ELSE {Ok}

---------------------------------------------------------------------------
(* check_dependencies: the cycle detection *)

\* Truncate, were nothing popped off ancestors_stack
TruncateNever(stack, task_depth) == stack

\* ancestors_stack after the pops that bring it down to task_depth
Truncate(stack, task_depth) == SubSeq(stack, 1, task_depth)

\* Removed, were the pops to leave ancestors_set alone
RemovedNothing(stack, task_depth) == {}

\* the tasks those pops remove from ancestors_set
Removed(stack, task_depth) == {stack[i] : i \in (task_depth + 1)..Len(stack)}

\* is the popped task an ancestor of itself?
IsAncestor(set, t) == t \in set

\* IsVisited, were no task ever found in `visited`
IsVisitedNever(seen, t) == FALSE

\* has the popped task been seen before?
IsVisited(seen, t) == t \in seen

\* CycleOf, were the whole ancestor stack reported (no find)
CycleOfWholeStack(stack, t) == stack \o <<t>>

\* CycleOf, were the first occurrence of the task kept (skip_while for find)
CycleOfInclusive(stack, t) ==
    LET hits == {i \in DOMAIN stack : stack[i] = t}
        first == IF hits = {} THEN Len(stack) + 1
                 ELSE CHOOSE i \in hits : \A j \in hits : i <= j
    IN  SubSeq(stack, first, Len(stack)) \o <<t>>

\* `cycle`: what follows the first occurrence of the task on the stack, then the task
CycleOf(stack, t) ==
    LET hits == {i \in DOMAIN stack : stack[i] = t}
        first == IF hits = {} THEN Len(stack)
                 ELSE CHOOSE i \in hits : \A j \in hits : i <= j
    IN  SubSeq(stack, first + 1, Len(stack)) \o <<t>>

ItselfPhrase == " depends on itself."

EachOtherPhrase == " depend on each other."

DependsOnPhrase == " depends on "

CyclicPhrase == "The dependencies are cyclic. "

\* error_message
CycleErrorMessage(c) ==
    IF Len(c) = 1 THEN CodeStr(c[1]) \o <<ItselfPhrase>>
    ELSE IF Len(c) = 2
    THEN CodeStr(c[1]) \o <<" and ">> \o CodeStr(c[2]) \o <<EachOtherPhrase>>
    ELSE LET cycle_dependencies == Tail(c) \o <<c[1]>>
         IN  series([i \in DOMAIN c |->
                        CodeStr(c[i]) \o <<DependsOnPhrase>> \o CodeStr(cycle_dependencies[i])])
                 \o <<".">>

CycleMessage(c) == <<CyclicPhrase>> \o CycleErrorMessage(c)

\* the pairs pushed on the frontier for the dependencies of a task
Pushed(dependencies, task_depth) ==
    [i \in DOMAIN dependencies |-> <<dependencies[i], task_depth + 1>>]

---------------------------------------------------------------------------
(* environment *)

\* std::env::var: the value of a variable that is set to valid Unicode;
\* None stands for Err (the variable is unset, or its value is not Unicode)
env_var(host, arg) ==
    IF arg \in DOMAIN host /\ host[arg].unicode THEN Some(host[arg].text) ELSE None

\* ResolveEntry, were a missing variable without default resolved to ""
ResolveEntryEmpty(default, maybe_var) ==
    IF default # None
    THEN Some(IF maybe_var # None THEN maybe_var[1] ELSE default[1])
    ELSE IF maybe_var # None THEN Some(maybe_var[1])
    ELSE Some("")

\* ResolveEntry, were the declared default preferred to the host's value
ResolveEntryDefaultFirst(default, maybe_var) ==
    IF default # None THEN Some(default[1])
    ELSE IF maybe_var # None THEN Some(maybe_var[1])
    ELSE None

\* one iteration of the loop: the value inserted in `result`, or None when
\* the name goes to `violations`
ResolveEntry(default, maybe_var) ==
    IF default # None
    THEN Some(IF maybe_var # None THEN maybe_var[1] ELSE default[1])
    ELSE IF maybe_var # None THEN Some(maybe_var[1])
    ELSE None

EnvPending == [status |-> "Pending", result |-> EmptyMap, violations |-> <<>>]

\* what environment returns once the loop is over
EnvReturnValue(res, viol) ==
    IF viol = <<>>
    THEN [status |-> "Ok", result |-> res, violations |-> <<>>]
    ELSE [status |-> "Err", result |-> EmptyMap, violations |-> viol]

EnvNames == {"foo1", "foo2", "foo3"}

EnvDefaults == {None, Some("bar")}

\* the values a host variable may have: valid Unicode or not
HostValues == {[unicode |-> TRUE, text |-> "baz"], [unicode |-> FALSE, text |-> "?"]}

EnvTasks ==
    {DeserializeTask(IF environment = EmptyMap THEN EmptyMap
                     ELSE "environment" :> environment) :
        environment \in UNION {[names -> EnvDefaults] : names \in SUBSET EnvNames}}

HostEnvs == UNION {[names -> HostValues] : names \in SUBSET EnvNames}

---------------------------------------------------------------------------
(* The runtime adapter (src/src/docker.rs): failures, results, exit statuses *)
(* and the operations with the subprocess mode each one runs in.            *)

\* Failure::Interrupted
Interrupted == [kind |-> "Interrupted", message |-> <<>>, source |-> None]

\* Failure::System(message, None)
System(message) == [kind |-> "System", message |-> message, source |-> None]

\* failure::system_error(message)(error): the System failure an io::Error
\* turns into, with the error as its source
system_error(message, error) ==
    [kind |-> "System", message |-> message, source |-> Some(error)]

\* Result::Ok(value) and Result::Err(failure) of the adapter
OkOf(value) == [status |-> "Ok", value |-> value]

ErrOf(failure) == [status |-> "Err", failure |-> failure]

\* no result yet
NoResult == [status |-> "None"]

\* the unit value ()
Unit == <<>>

\* std::process::ExitStatus: the exit code, None when a signal killed the child
ExitStatus(code) == [code |-> code]

\* ExitStatus::success
success(st) == st.code = Some(0)

\* the ways a child can terminate
ExitStatuses == {ExitStatus(Some(0)), ExitStatus(Some(1)), ExitStatus(None)}

\* char::is_whitespace: the characters of the Unicode property White_Space,
\* which str::trim strips; a string is given by its characters
Whitespace ==
    {"\t", "\n", "\f", "\r", " "} \cup WhitespaceCodePoints

RECURSIVE TrimStart(_)
TrimStart(s) ==
    IF s # <<>> /\ s[1] \in Whitespace THEN TrimStart(Tail(s)) ELSE s

RECURSIVE TrimEnd(_)
TrimEnd(s) ==
    IF s # <<>> /\ s[Len(s)] \in Whitespace THEN TrimEnd(SubSeq(s, 1, Len(s) - 1)) ELSE s

\* trim, were only the end of the string trimmed
TrimOnlyEnd(s) == TrimEnd(s)

\* str::trim
trim(s) == TrimEnd(TrimStart(s))

\* what a child may print on its standard output
StdoutPool ==
    {<<"c", "1">>, <<" ", "c", "1", "\n">>, <<"\n", "c", " ", "1", "\t">>,
     <<"\f", "c", "1", "\r", "\n">>}

\* the container and the port mappings the operations are called with
Container == "c1"

PublishPool == {"3000:80", "8080:8080"}

\* the public operations that run one child, with the private function each
\* one calls
Modes ==
    [image_exists        |-> "run_quiet",
     push_image          |-> "run_quiet",
     pull_image          |-> "run_quiet",
     delete_image        |-> "run_quiet",
     create_container    |-> "run_quiet",
     copy_into_container |-> "run_quiet_stdin",
     copy_from_container |-> "run_quiet",
     start_container     |-> "run_loud_stdin",
     stop_container      |-> "run_quiet",
     commit_container    |-> "run_quiet",
     delete_container    |-> "run_quiet",
     spawn_shell         |-> "run_attach"]

\* the `error` argument each operation passes down
Errors ==
    [image_exists        |-> "The image doesn't exist.",
     push_image          |-> "Unable to push image.",
     pull_image          |-> "Unable to pull image.",
     delete_image        |-> "Unable to delete image.",
     create_container    |-> "Unable to create container.",
     copy_into_container |-> "Unable to copy files into the container.",
     copy_from_container |-> "Unable to copy files from the container.",
     start_container     |-> "Unable to start container.",
     stop_container      |-> "Unable to stop container.",
     commit_container    |-> "Unable to commit container.",
     delete_container    |-> "Unable to delete container.",
     spawn_shell         |-> "The shell exited with a failure."]

\* the modes whose caller writes to the child's standard input
StdinModes == {"run_quiet_stdin", "run_loud_stdin"}

\* the modes that capture the child's output
QuietModes == {"run_quiet", "run_quiet_stdin"}

\* `for port in ports { command.extend(vec!["--publish", port]) }`
RECURSIVE Publish(_)
Publish(ports) ==
    IF ports = <<>> THEN <<>>
    ELSE <<"--publish", ports[1]>> \o Publish(Tail(ports))

\* the argument vector an operation hands to `command`; target is the host
\* path of a copy-out, image the image of a commit
Arguments(name, ports, source, target) ==
    CASE name = "image_exists" -> <<"image", "inspect", Image>>
      [] name = "push_image" -> <<"image", "push", Image>>
      [] name = "pull_image" -> <<"image", "pull", Image>>
      [] name = "delete_image" -> <<"image", "rm", "--force", Image>>
      [] name = "create_container" ->
            <<"container", "create", "--init", "--interactive">> \o Publish(ports)
                \o <<Image, "/bin/sh">>
      [] name = "copy_into_container" -> <<"container", "cp", "-", Container \o ":" \o "/">>
      [] name = "copy_from_container" ->
            <<"container", "cp", Container \o ":" \o to_string_lossy(source),
              to_string_lossy(target)>>
      [] name = "start_container" ->
            <<"container", "start", "--attach", "--interactive", Container>>
      [] name = "stop_container" -> <<"container", "stop", Container>>
      [] name = "commit_container" -> <<"container", "commit", Container, Image>>
      [] name = "delete_container" -> <<"container", "rm", "--force", Container>>
      [] name = "spawn_shell" ->
            <<"container", "run", "--rm", "--interactive", "--tty", "--init", Image, "/bin/su">>

\* the message of the failure to spawn or to wait
PerhapsMessage(error) == <<error, " Perhaps you don't have Docker installed.">>

\* the errors the caller's writer may fail with: io::copy fails when the tar
\* cannot be read or when the child has closed its end of the pipe, write!
\* when the child has closed its end of the pipe
WriterErrors(name) ==
    IF name = "copy_into_container" THEN {"EIO", "EPIPE"} ELSE {"EPIPE"}

\* the failure of the caller's writer
WriterFailure(name, error) ==
    IF name = "copy_into_container"
    THEN system_error(<<"Unable to copy files into the container.">>, error)
    ELSE system_error(<<"Unable to send command ">> \o CodeStr("command")
                          \o <<" to the container.">>, error)

\* the failure of a child that ended without success and was not interrupted
ChildFailure(mode, error) ==
    IF mode \in QuietModes THEN System(<<error, " Details:\n", "stderr">>)
    ELSE System(<<error>>)

\* IsInterruption, were the read before the spawn left out of it
IsInterruptionIgnoringBefore(st, was, now) == st.code = None \/ now

\* the condition under which a child that ended without success counts as
\* interrupted: status.code().is_none() || (!was_interrupted && interrupted.load())
IsInterruption(st, was, now) == st.code = None \/ (~was /\ now)

\* the value the flag is read to have after the child ended; the || and the
\* && short-circuit, so there is no read when the child has no exit code and
\* none when was_interrupted is true
PostRead(st, was, now) == IF st.code = None \/ was THEN None ELSE Some(now)

\* the Ok value of the private function: the captured output, or ()
RunValue(mode, out) == IF mode \in QuietModes THEN out ELSE Unit

\* OperationResult, were image_exists to pass every failure on
OperationResultPropagating(name, r) ==
    IF name = "image_exists"
    THEN IF r.status = "Ok" THEN OkOf(TRUE) ELSE r
    ELSE IF name = "create_container"
    THEN IF r.status = "Ok" THEN OkOf(trim(r.value)) ELSE r
    ELSE IF r.status = "Ok" THEN OkOf(Unit) ELSE r

\* what the public operation makes of the result of its private function
OperationResult(name, r) ==
    IF name = "image_exists"
    THEN IF r.status = "Ok" THEN OkOf(TRUE)
         ELSE IF r.failure = Interrupted THEN ErrOf(Interrupted)
         ELSE OkOf(FALSE)
    ELSE IF name = "create_container"
    THEN IF r.status = "Ok" THEN OkOf(trim(r.value)) ELSE r
    ELSE IF r.status = "Ok" THEN OkOf(Unit) ELSE r

\* the operation, before one is invoked
NoOperation == [name |-> "", ports |-> <<>>]

\* the operations of the adapter that run exactly one child
Operations ==
    {[name |-> n, ports |-> <<>>] : n \in (DOMAIN Modes) \ {"create_container", "copy_from_container"}}
    \cup {[name |-> "create_container", ports |-> p] : p \in SeqsUpTo(PublishPool, MaxPorts)}

\* the state of the subprocess wrappers when no operation has been invoked
RunIdle ==
    /\ interrupted = FALSE
    /\ op = NoOperation
    /\ dpc = "idle"
    /\ was_interrupted = FALSE
    /\ child = "none"
    /\ status = None
    /\ child_stdout = <<>>
    /\ orphans = 0
    /\ run_result = NoResult
    /\ op_result = NoResult
    /\ ops_done = 0
    /\ args = <<>>
    /\ post_read = None
    /\ invoked_interrupted = FALSE
    /\ spawned = FALSE

\* the state of copy_from_container when it has not been invoked
CopyIdle ==
    /\ fs = EmptyMap
    /\ todo = <<>>
    /\ temp_dir = None
    /\ temps = 0
    /\ entries = <<>>
    /\ copied = <<>>
    /\ first_tree = None

DockerIdle == RunIdle /\ CopyIdle

---------------------------------------------------------------------------
(* copy_from_container: the host filesystem, the runtime's copy-out and the *)
(* inputs the model runs it on.                                             *)

\* a node of a filesystem: a directory, a directory the caller may neither
\* read, search nor write (mode 000), a mount point of another filesystem, or
\* a file given by its content
Dir == "dir"

Locked == "locked"

MountPoint == "mount"

is_dir(files, path) == path \in DOMAIN files /\ files[path] \in {Dir, Locked, MountPoint}

is_file(files, path) == path \in DOMAIN files /\ files[path] \notin {Dir, Locked, MountPoint}

\* Path::starts_with
starts_with(path, base) ==
    Len(base) <= Len(path) /\ SubSeq(path, 1, Len(base)) = base

\* Path::strip_prefix
strip_prefix(path, base) == SubSeq(path, Len(base) + 1, Len(path))

\* Path::parent
parent(path) == SubSeq(path, 1, Len(path) - 1)

\* Path::components: a trailing separator, held as an empty last component,
\* is no component
components(path) ==
    IF path # <<>> /\ path[Len(path)] = "" THEN SubSeq(path, 1, Len(path) - 1) ELSE path

\* Path::join: an absolute second path replaces the first; an empty one leaves
\* the first with a trailing separator
join(base, path) ==
    IF is_absolute(path) THEN path
    ELSE IF path = <<>> THEN (IF base = <<RootDir>> THEN base ELSE components(base) \o <<"">>)
    ELSE components(base) \o path

\* the last component of a path
file_name(path) == path[Len(path)]

\* the filesystem a path lives on: the mount point it is under, if any
Device(files, path) ==
    LET mounts == {m \in DOMAIN files : files[m] = MountPoint /\ starts_with(path, m)}
    IN  IF mounts = {} THEN <<RootDir>> ELSE CHOOSE m \in mounts : TRUE

\* the result of a system call: the filesystem after it and its error, if any
Done(files) == [files |-> files, error |-> None]

Failed(files, errno) == [files |-> files, error |-> Some(errno)]

\* the proper ancestors of a path and the path itself, below the root
Prefixes(path) == {SubSeq(path, 1, n) : n \in 1..Len(path)}

\* std::fs::create_dir_all: mkdir of the path, after its missing ancestors; a
\* path that is a file fails mkdir with EEXIST, a file among its ancestors
\* with ENOTDIR, an ancestor that may not be searched or written with EACCES
create_dir_all(files, path) ==
    LET dir == components(path)
        refusing == {n \in 1..(Len(dir) - 1) :
                        \/ is_file(files, SubSeq(dir, 1, n))
                        \/ (is_dir(files, SubSeq(dir, 1, n))
                               /\ files[SubSeq(dir, 1, n)] = Locked)}
        first == SubSeq(dir, 1, CHOOSE n \in refusing : \A m \in refusing : n <= m)
    IN  IF refusing # {}
        THEN Failed(files, IF files[first] = Locked THEN "EACCES" ELSE "ENOTDIR")
        ELSE IF is_file(files, dir) THEN Failed(files, "EEXIST")
        ELSE Done([p \in DOMAIN files \cup Prefixes(dir) |->
                      IF p \in DOMAIN files THEN files[p] ELSE Dir])

\* the error of the walk to the parent of a path: the first of its ancestors
\* that is no directory the caller may use is a file (ENOTDIR), does not exist
\* (ENOENT) or may not be searched or written (EACCES)
LookupParent(files, path) ==
    LET bad == {n \in 1..(Len(path) - 1) :
                   \/ ~is_dir(files, SubSeq(path, 1, n))
                   \/ files[SubSeq(path, 1, n)] = Locked}
        first == SubSeq(path, 1, CHOOSE n \in bad : \A m \in bad : n <= m)
    IN  IF bad = {} THEN None
        ELSE IF first \notin DOMAIN files THEN Some("ENOENT")
        ELSE IF files[first] = Locked THEN Some("EACCES")
        ELSE Some("ENOTDIR")

\* std::fs::rename, in the order of the system call: the parents of both
\* paths, their filesystems, the source, then the target
rename(files, from, to) ==
    IF LookupParent(files, from) # None THEN Failed(files, LookupParent(files, from)[1])
    ELSE IF LookupParent(files, to) # None THEN Failed(files, LookupParent(files, to)[1])
    ELSE IF Device(files, parent(from)) # Device(files, parent(to))
    THEN Failed(files, "EXDEV")
    ELSE IF from \notin DOMAIN files THEN Failed(files, "ENOENT")
    ELSE IF from = to THEN Done(files)
    ELSE IF is_dir(files, from) /\ starts_with(to, from) THEN Failed(files, "EINVAL")
    ELSE IF starts_with(from, to) THEN Failed(files, "ENOTEMPTY")
    ELSE IF is_dir(files, from) /\ is_file(files, to) THEN Failed(files, "ENOTDIR")
    ELSE IF is_file(files, from) /\ is_dir(files, to) THEN Failed(files, "EISDIR")
    ELSE IF files[from] = MountPoint \/ (to \in DOMAIN files /\ files[to] = MountPoint)
    THEN Failed(files, "EBUSY")
    ELSE IF \E p \in DOMAIN files : p # to /\ starts_with(p, to)
    THEN Failed(files, "ENOTEMPTY")
    ELSE Done([p \in {q \in DOMAIN files : ~starts_with(q, from)}
                        \cup {to \o strip_prefix(q, from) :
                                 q \in {r \in DOMAIN files : starts_with(r, from)}} |->
                  IF starts_with(p, to) THEN files[from \o strip_prefix(p, to)]
                  ELSE files[p]])

\* std::fs::remove_dir_all as TempDir's drop calls it, its error ignored: the
\* filesystems it may leave. The entries of a directory are removed in the
\* order they are read, a directory after its contents, and the removal ends
\* at the first directory that cannot be opened: what was read before it is
\* gone, that directory and the directories it is in stay.
remove_dir_all(files, path) ==
    LET refused == {q \in DOMAIN files :
                       /\ starts_with(q, path)
                       /\ files[q] = Locked
                       /\ \A n \in Len(path)..(Len(q) - 1) : files[SubSeq(q, 1, n)] # Locked}
        ReadBefore(stop) ==
            {q \in DOMAIN files :
                /\ starts_with(q, path) /\ q # path
                /\ starts_with(stop, parent(q)) /\ parent(q) # stop
                /\ ~starts_with(stop, q)
                /\ \A p \in DOMAIN files : starts_with(p, q) => files[p] # Locked}
        Without(gone) ==
            [p \in {q \in DOMAIN files : \A g \in gone : ~starts_with(q, g)} |-> files[p]]
    IN  IF refused = {} THEN {Without({path})}
        ELSE UNION {{Without(gone) : gone \in SUBSET ReadBefore(stop)} : stop \in refused}

\* the filesystem with a tree put at a path, over what is there
Install(files, tree, at) ==
    [p \in DOMAIN files \cup {at \o r : r \in DOMAIN tree} |->
        IF starts_with(p, at) /\ strip_prefix(p, at) \in DOMAIN tree
        THEN tree[strip_prefix(p, at)]
        ELSE files[p]]

\* the tree below a path, by paths relative to it
TreeAt(files, at) ==
    [r \in {strip_prefix(p, at) : p \in {q \in DOMAIN files : starts_with(q, at)}} |->
        files[at \o r]]

\* `docker container cp <id>:<source> <target>` of a tree, by the outcomes
\* the runtime may produce: a target that does not exist is created as the
\* copy; a target that is a directory receives the copy as a child named
\* after the source; a file is replaced by a file. Nothing is written below
\* a directory the caller may not enter. The copy is extracted entry by
\* entry with the modes of the container: when the extraction is subject to
\* those modes it stops with an error at the first entry below a directory
\* that is closed to the caller, and what it has extracted by then stays (the
\* directories down to the closed one, and the entries beside them that came
\* first in the archive); when it is not, the whole tree arrives
DockerCp(files, tree, name, target) ==
    LET at == IF is_dir(files, target) THEN join(target, <<name>>) ELSE target
        refused == {d \in DOMAIN tree :
                       /\ tree[d] = Locked
                       /\ \E q \in DOMAIN tree : starts_with(q, d) /\ q # d
                       /\ \A n \in 0..(Len(d) - 1) : tree[SubSeq(d, 1, n)] # Locked}
        Beside(stop) ==
            {q \in DOMAIN tree :
                /\ q # <<>>
                /\ starts_with(stop, parent(q)) /\ parent(q) # stop
                /\ ~starts_with(stop, q)
                /\ \A d \in refused : ~starts_with(d, q)}
        Part(stop, chosen) ==
            [r \in {q \in DOMAIN tree :
                       \/ starts_with(stop, q)
                       \/ \E c \in chosen : starts_with(q, c)} |-> tree[r]]
    IN  IF ~is_dir(files, parent(target)) THEN {Failed(files, "ENOENT")}
        ELSE IF LookupParent(files, join(target, <<name>>)) = Some("EACCES")
        THEN {Failed(files, "EACCES")}
        ELSE IF is_dir(files, target) /\ is_file(files, at) /\ is_dir(tree, <<>>)
        THEN {Failed(files, "ENOTDIR")}
        ELSE IF is_dir(files, target) /\ is_dir(files, at) /\ is_file(tree, <<>>)
        THEN {Failed(files, "EISDIR")}
        ELSE IF is_file(files, target) /\ is_dir(tree, <<>>)
        THEN {Failed(files, "ENOTDIR")}
        ELSE {Done(Install(files, tree, at))}
                \cup UNION {{Failed(Install(files, Part(stop, chosen), at), "EACCES") :
                                chosen \in SUBSET Beside(stop)} : stop \in refused}

\* what WalkDir yields for a tree, in the orders it may: every entry it
\* reaches, a directory before its contents and the contents of a directory
\* together; a directory that cannot be read is yielded as an entry, and the
\* error of reading it comes in place of its contents
WalkOrders(tree) ==
    LET reached == {r \in DOMAIN tree :
                       \A n \in 0..(Len(r) - 1) : tree[SubSeq(r, 1, n)] # Locked}
        yields == {[path |-> r, error |-> None] : r \in reached}
                     \cup {[path |-> r, error |-> Some("EACCES")] :
                              r \in {d \in reached : tree[d] = Locked}}
        Place(y) == IF y.error = None THEN y.path ELSE y.path \o <<"">>
    IN  {o \in Orders(yields) :
            \A i \in DOMAIN o :
                LET below == {j \in DOMAIN o : starts_with(Place(o[j]), Place(o[i]))}
                IN  below = i..(i + Cardinality(below) - 1)}

\* the directories of the host that copy_from_container is called with
SourceDir == <<RootDir, "scratch">>

DestinationDir == <<RootDir, "dest">>

\* std::env::temp_dir
TempRoot == <<RootDir, "tmp">>

\* tempdir(): a directory of a name that is not in use
TempDirPath(n) == join(TempRoot, <<"t" \o ToString(n)>>)

\* Intermediate, were the copy-out aimed at the destination itself
IntermediateAtDestination(temp, destination) == destination

\* let intermediate = temp_dir.path().join("data"), for the temporary
\* directory and the destination of the path at hand
Intermediate(temp, destination) == join(temp, <<"data">>)

\* what a path of the container may hold
FileTree == <<>> :> "new"

DirTree == (<<>> :> Dir) @@ (<<"f">> :> "new") @@ (<<"sub">> :> Dir)
               @@ (<<"sub", "g">> :> "new")

EmptyDirTree == <<>> :> Dir

ContainerTrees == {FileTree, DirTree, EmptyDirTree}

\* the same with directories the caller cannot read
LockedSubTree == (<<"sub">> :> Locked) @@ DirTree

LockedDirTree == <<>> :> Locked

LockedTrees == {LockedSubTree, LockedDirTree}

\* the output paths the operation is asked for
CopyPathPool == {<<"out">>, <<"a", "b">>}

\* the inputs of copy_from_container: the paths, each of them once, what the
\* container holds at each (nothing, for a path the container lacks) and the
\* path, if any, whose temporary directory is closed to the caller after the
\* copy-out
CopyOperations ==
    UNION {{[name |-> "copy_from_container", ports |-> <<>>, paths |-> paths,
             contents |-> contents, closed |-> None] :
               contents \in UNION {[held -> ContainerTrees] : held \in SUBSET Range(paths)}} :
           paths \in {p \in SeqsUpTo(CopyPathPool, MaxCopyPaths) : Cardinality(Range(p)) = Len(p)}}

\* the same where the caller is refused at the last path, the paths before
\* it files: the path holds a directory that cannot be read, or it holds a
\* file and its temporary directory is closed
RefusedOperations ==
    UNION {{[name |-> "copy_from_container", ports |-> <<>>,
             paths |-> before \o <<last>>,
             contents |-> (last :> refusal[1]) @@ [held \in Range(before) |-> FileTree],
             closed |-> IF refusal[2] THEN Some(Len(before) + 1) ELSE None] :
               last \in CopyPathPool \ Range(before),
               refusal \in (LockedTrees \X {FALSE}) \cup ({FileTree} \X {TRUE})} :
           before \in SeqsUpTo(CopyPathPool, MaxCopyPaths - 1)}

\* the host before the first copy: the temporary directory on the root
\* filesystem or on one of its own, the destination empty or holding an
\* earlier output
HostRoots ==
    {(<<RootDir>> :> Dir) @@ (TempRoot :> t) : t \in {Dir, MountPoint}}

EarlierOutputs ==
    {EmptyMap,
     DestinationDir :> Dir,
     (DestinationDir :> Dir) @@ (join(DestinationDir, <<"out">>) :> "old"),
     (DestinationDir :> Dir) @@ (join(DestinationDir, <<"out">>) :> Dir)
         @@ (join(DestinationDir, <<"out", "stale">>) :> "old")}

Hosts == {root @@ earlier : root \in HostRoots, earlier \in EarlierOutputs}

---------------------------------------------------------------------------
(* The state machine of parse. *)

ParseIdle ==
    /\ toastfile_data = EmptyMap
    /\ toastfile = NoToastfile
    /\ result = Pending
    /\ checks = <<>>
    /\ violations = EmptyMap
    /\ remaining = {}
    /\ visited = {}
    /\ frontier = <<>>
    /\ ancestors_set = {}
    /\ ancestors_stack = <<>>
    /\ cycle = <<>>
    /\ pops = 0
    /\ outer_task = None

EnvIdle ==
    /\ task = DeserializeTask(EmptyMap)
    /\ host_env = EmptyMap
    /\ env_remaining = {}
    /\ env_violations = <<>>
    /\ env_result = EmptyMap
    /\ env_return = EnvPending

Init ==
    /\ IsManifest(toastfile_data)
    /\ pc = "deserialize"
    /\ toastfile = NoToastfile
    /\ result = Pending
    /\ checks = <<>>
    /\ violations = EmptyMap
    /\ remaining = {}
    /\ visited = {}
    /\ frontier = <<>>
    /\ ancestors_set = {}
    /\ ancestors_stack = <<>>
    /\ cycle = <<>>
    /\ pops = 0
    /\ outer_task = None
    /\ EnvIdle
    /\ DockerIdle

\* parse returns r
Return(r) ==
    /\ result' = r
    /\ pc' = "done"

\* serde_yaml::from_str(toastfile_data).map_err(..)?
Deserialize ==
    /\ pc = "deserialize"
    /\ LET errors == DeserializeErrors(toastfile_data)
       IN  \E e \in (IF errors = {} THEN {<<>>} ELSE errors) :
              IF errors = {}
              THEN /\ toastfile' = DeserializeToastfile(toastfile_data)
                   /\ pc' = "check_paths"
                   /\ UNCHANGED result
              ELSE /\ Return(Err(e))
                   /\ UNCHANGED toastfile
    /\ UNCHANGED <<toastfile_data, checks, violations>>
    /\ UNCHANGED cycle_vars
    /\ UNCHANGED env_vars
    /\ UNCHANGED docker_vars

\* check_paths(&toastfile)?
CheckPaths ==
    /\ pc = "check_paths"
    /\ checks' = Append(checks, "check_paths")
    /\ \E r \in check_paths(toastfile) :
          IF r = Ok
          THEN pc' = "check_caching" /\ UNCHANGED result
          ELSE Return(r)
    /\ UNCHANGED <<toastfile_data, toastfile, violations>>
    /\ UNCHANGED cycle_vars
    /\ UNCHANGED env_vars
    /\ UNCHANGED docker_vars

\* check_caching(&toastfile)?
CheckCaching ==
    /\ pc = "check_caching"
    /\ checks' = Append(checks, "check_caching")
    /\ \E r \in check_caching(toastfile) :
          IF r = Ok
          THEN pc' = "check_dependencies" /\ UNCHANGED result
          ELSE Return(r)
    /\ UNCHANGED <<toastfile_data, toastfile, violations>>
    /\ UNCHANGED cycle_vars
    /\ UNCHANGED env_vars
    /\ UNCHANGED docker_vars

\* check_dependencies(&toastfile)?, up to the cycle detection
CheckDependencies ==
    /\ pc = "check_dependencies"
    /\ checks' = Append(checks, "check_dependencies")
    /\ violations' = ScanViolations(toastfile)
    /\ \E r \in ExistenceResults(toastfile) :
          IF r = Ok
          THEN /\ pc' = "cycle_outer"
               /\ remaining' = DOMAIN toastfile.tasks
               /\ UNCHANGED result
          ELSE /\ Return(r)
               /\ UNCHANGED remaining
    /\ visited' = {}
    /\ UNCHANGED <<toastfile_data, toastfile, frontier, ancestors_set,
                   ancestors_stack, cycle, pops, outer_task>>
    /\ UNCHANGED env_vars
    /\ UNCHANGED docker_vars

\* one iteration of `for task in toastfile.tasks.keys()` begins
StartTraversal ==
    /\ pc = "cycle_outer"
    /\ \E t \in remaining :
          /\ remaining' = remaining \ {t}
          /\ frontier' = <<<<t, 0>>>>
          /\ outer_task' = Some(t)
    /\ ancestors_set' = {}
    /\ ancestors_stack' = <<>>
    /\ pc' = "cycle_inner"
    /\ UNCHANGED <<toastfile_data, toastfile, result, checks, violations,
                   visited, cycle, pops>>
    /\ UNCHANGED env_vars
    /\ UNCHANGED docker_vars

\* one iteration of `while !frontier.is_empty()`
PopFrontier ==
    /\ pc = "cycle_inner"
    /\ frontier # <<>>
    /\ LET top == frontier[Len(frontier)]
           t == top[1]
           task_depth == top[2]
           rest == SubSeq(frontier, 1, Len(frontier) - 1)
           stack == Truncate(ancestors_stack, task_depth)
           set == ancestors_set \ Removed(ancestors_stack, task_depth)
       IN  /\ pops' = pops + 1
           /\ IF Len(ancestors_stack) < task_depth
              THEN /\ Return(Panic("attempt to subtract with overflow"))
                   /\ UNCHANGED <<frontier, ancestors_set, ancestors_stack, visited, cycle>>
              ELSE IF IsAncestor(set, t)
              THEN /\ cycle' = CycleOf(stack, t)
                   /\ Return(Err(CycleMessage(CycleOf(stack, t))))
                   /\ frontier' = rest
                   /\ ancestors_set' = set
                   /\ ancestors_stack' = stack
                   /\ UNCHANGED visited
              ELSE IF IsVisited(visited, t)
              THEN /\ frontier' = rest
                   /\ ancestors_set' = set
                   /\ ancestors_stack' = stack
                   /\ pc' = IF rest = <<>> THEN "cycle_outer" ELSE "cycle_inner"
                   /\ UNCHANGED <<visited, cycle, result>>
              ELSE IF t \notin DOMAIN toastfile.tasks
              THEN /\ Return(Panic("no entry found for key"))
                   /\ visited' = visited \cup {t}
                   /\ ancestors_set' = set \cup {t}
                   /\ ancestors_stack' = Append(stack, t)
                   /\ frontier' = rest
                   /\ UNCHANGED cycle
              ELSE /\ visited' = visited \cup {t}
                   /\ ancestors_set' = set \cup {t}
                   /\ ancestors_stack' = Append(stack, t)
                   /\ frontier' = rest \o Pushed(toastfile.tasks[t].dependencies, task_depth)
                   /\ pc' = IF frontier' = <<>> THEN "cycle_outer" ELSE "cycle_inner"
                   /\ UNCHANGED <<cycle, result>>
           /\ outer_task' = IF pc' = "cycle_outer" THEN None ELSE outer_task
    /\ UNCHANGED <<toastfile_data, toastfile, checks, violations, remaining>>
    /\ UNCHANGED env_vars
    /\ UNCHANGED docker_vars

\* the outer loop is over: Ok(())
NoViolations ==
    /\ pc = "cycle_outer"
    /\ remaining = {}
    /\ Return(Ok)
    /\ UNCHANGED <<toastfile_data, toastfile, checks, violations>>
    /\ UNCHANGED cycle_vars
    /\ UNCHANGED env_vars
    /\ UNCHANGED docker_vars

Next ==
    \/ Deserialize
    \/ CheckPaths
    \/ CheckCaching
    \/ CheckDependencies
    \/ StartTraversal
    \/ PopFrontier
    \/ NoViolations

Spec == Init /\ [][Next]_vars

\* parse on the manifests that differ in the dependency graph, as a sequential
\* program: it takes its next step whenever it has one
InitCycle ==
    /\ IsGraphManifest(toastfile_data)
    /\ pc = "deserialize"
    /\ toastfile = NoToastfile
    /\ result = Pending
    /\ checks = <<>>
    /\ violations = EmptyMap
    /\ remaining = {}
    /\ visited = {}
    /\ frontier = <<>>
    /\ ancestors_set = {}
    /\ ancestors_stack = <<>>
    /\ cycle = <<>>
    /\ pops = 0
    /\ outer_task = None
    /\ EnvIdle
    /\ DockerIdle

SpecCycle == InitCycle /\ [][Next]_vars /\ WF_vars(Next)

---------------------------------------------------------------------------
(* The state machine of environment. *)

InitEnv ==
    /\ pc = "environment"
    /\ task \in EnvTasks
    /\ host_env \in HostEnvs
    /\ env_remaining = DOMAIN task.environment
    /\ env_violations = <<>>
    /\ env_result = EmptyMap
    /\ env_return = EnvPending
    /\ ParseIdle
    /\ DockerIdle

\* one iteration of `for (arg, default) in &task.environment`
EnvEntry ==
    /\ pc = "environment"
    /\ \E arg \in env_remaining :
          LET default == task.environment[arg]
              maybe_var == env_var(host_env, arg)
              value == ResolveEntry(default, maybe_var)
          IN  /\ env_remaining' = env_remaining \ {arg}
              /\ IF value # None
                 THEN /\ env_result' = (arg :> value[1]) @@ env_result
                      /\ UNCHANGED env_violations
                 ELSE /\ env_violations' = Append(env_violations, arg)
                      /\ UNCHANGED env_result
    /\ UNCHANGED <<pc, task, host_env, env_return>>
    /\ UNCHANGED parse_vars
    /\ UNCHANGED docker_vars

\* the loop is over: Ok(result) or Err(violations)
EnvReturn ==
    /\ pc = "environment"
    /\ env_remaining = {}
    /\ env_return' = EnvReturnValue(env_result, env_violations)
    /\ pc' = "returned"
    /\ UNCHANGED <<task, host_env, env_remaining, env_violations, env_result>>
    /\ UNCHANGED parse_vars
    /\ UNCHANGED docker_vars

NextEnv ==
    \/ EnvEntry
    \/ EnvReturn

SpecEnv == InitEnv /\ [][NextEnv]_vars

---------------------------------------------------------------------------
(* The state machine of the subprocess wrappers run_quiet, run_quiet_stdin, *)
(* run_loud_stdin and run_attach, and of the operations that call them.     *)

Mode == Modes[op.name]

Error == Errors[op.name]

\* the flag after the result has been handled, were it cleared on success
FlagAfterClearing(st, was, now) ==
    IF success(st) THEN FALSE
    ELSE IF IsInterruption(st, was, now) THEN TRUE
    ELSE now

\* the flag after the result has been handled: interrupted.store(true) on the
\* Interrupted branch, no write on the others
FlagAfter(st, was, now) ==
    IF success(st) THEN now
    ELSE IF IsInterruption(st, was, now) THEN TRUE
    ELSE now

\* HandledResult, were the interruption looked for before the success
HandledResultInterruptionFirst(mode, error, st, was, now, out) ==
    IF IsInterruption(st, was, now) THEN ErrOf(Interrupted)
    ELSE IF success(st) THEN OkOf(RunValue(mode, out))
    ELSE ErrOf(ChildFailure(mode, error))

\* the result of the private function for a child that has been waited for
HandledResult(mode, error, st, was, now, out) ==
    IF success(st) THEN OkOf(RunValue(mode, out))
    ELSE IF IsInterruption(st, was, now) THEN ErrOf(Interrupted)
    ELSE ErrOf(ChildFailure(mode, error))

InitRun ==
    /\ pc = "docker"
    /\ ParseIdle
    /\ EnvIdle
    /\ DockerIdle

\* an operation that runs one child is called
Invoke ==
    /\ dpc \in {"idle", "returned"}
    /\ ops_done < MaxOps
    /\ \E o \in Operations :
          /\ op' = o
          /\ args' = Arguments(o.name, o.ports, <<>>, <<>>)
    /\ dpc' = "load"
    /\ invoked_interrupted' = interrupted
    /\ spawned' = FALSE
    /\ run_result' = NoResult
    /\ op_result' = NoResult
    /\ status' = None
    /\ child_stdout' = <<>>
    /\ post_read' = None
    /\ UNCHANGED <<interrupted, was_interrupted, child, orphans, ops_done>>
    /\ UNCHANGED copy_vars
    /\ UNCHANGED <<pc, parse_vars, env_vars>>

\* let was_interrupted = interrupted.load(Ordering::SeqCst)
LoadInterrupted ==
    /\ dpc = "load"
    /\ was_interrupted' = interrupted
    /\ dpc' = "spawn"
    /\ UNCHANGED <<interrupted, op, child, status, child_stdout, orphans, run_result,
                   op_result, ops_done, args, post_read, invoked_interrupted, spawned>>
    /\ UNCHANGED copy_vars
    /\ UNCHANGED <<pc, parse_vars, env_vars>>

\* command(args) ... .spawn() / .output() / .status(): the child starts, or
\* the runtime cannot be started and the map_err(..)? returns
SpawnChild ==
    /\ dpc = "spawn"
    /\ \E started \in BOOLEAN :
          IF started
          THEN /\ child' = "running"
               /\ spawned' = TRUE
               /\ copied' = IF op.name = "copy_from_container"
                            THEN Append(copied, args) ELSE copied
               /\ dpc' = IF Mode \in StdinModes THEN "write" ELSE "wait"
               /\ UNCHANGED run_result
          ELSE /\ run_result' = ErrOf(system_error(PerhapsMessage(Error), "ENOENT"))
               /\ dpc' = "run_returned"
               /\ UNCHANGED <<child, spawned, copied>>
    /\ UNCHANGED <<interrupted, op, was_interrupted, status, child_stdout, orphans,
                   op_result, ops_done, args, post_read, invoked_interrupted>>
    /\ UNCHANGED <<fs, todo, temp_dir, temps, entries, first_tree>>
    /\ UNCHANGED <<pc, parse_vars, env_vars>>

\* writer(child.stdin.as_mut().unwrap())?: the writer succeeds, or it fails
\* and the ? returns; `child` is dropped then, which neither kills the child
\* nor waits for it
WriteStdin ==
    /\ dpc = "write"
    /\ \E written \in BOOLEAN :
          IF written
          THEN /\ dpc' = "wait"
               /\ UNCHANGED <<child, orphans, run_result, status, child_stdout>>
          ELSE /\ \E error \in WriterErrors(op.name) :
                     run_result' = ErrOf(WriterFailure(op.name, error))
               /\ orphans' = IF child = "running" THEN orphans + 1 ELSE orphans
               /\ child' = "none"
               /\ status' = None
               /\ child_stdout' = <<>>
               /\ dpc' = "run_returned"
    /\ UNCHANGED <<interrupted, op, was_interrupted, op_result, ops_done, args,
                   post_read, invoked_interrupted, spawned>>
    /\ UNCHANGED copy_vars
    /\ UNCHANGED <<pc, parse_vars, env_vars>>

\* the child of the operation in progress terminates
ChildExit ==
    /\ child = "running"
    /\ op.name # "copy_from_container"
    /\ \E st \in ExitStatuses :
          /\ status' = Some(st)
          /\ \E out \in (IF success(st) /\ Mode \in QuietModes THEN StdoutPool ELSE {<<>>}) :
                child_stdout' = out
    /\ child' = "exited"
    /\ UNCHANGED <<interrupted, op, dpc, was_interrupted, orphans, run_result, op_result,
                   ops_done, args, post_read, invoked_interrupted, spawned>>
    /\ UNCHANGED copy_vars
    /\ UNCHANGED <<pc, parse_vars, env_vars>>

\* a child that was dropped while running terminates
OrphanExit ==
    /\ orphans > 0
    /\ orphans' = orphans - 1
    /\ UNCHANGED <<interrupted, op, dpc, was_interrupted, child, status, child_stdout,
                   run_result, op_result, ops_done, args, post_read,
                   invoked_interrupted, spawned>>
    /\ UNCHANGED copy_vars
    /\ UNCHANGED <<pc, parse_vars, env_vars>>

\* child.wait() / wait_with_output() / the wait inside output() and status()
\* returns once the child has terminated: with its status, or with an
\* io::Error (there is no child left to wait for) that the map_err(..)? returns
WaitChild ==
    /\ dpc = "wait"
    /\ child = "exited"
    /\ child' = "none"
    /\ \E waited \in BOOLEAN :
          IF waited
          THEN /\ dpc' = "handle"
               /\ UNCHANGED <<run_result, status, child_stdout>>
          ELSE /\ run_result' = ErrOf(system_error(PerhapsMessage(Error), "ECHILD"))
               /\ status' = None
               /\ child_stdout' = <<>>
               /\ dpc' = "run_returned"
    /\ UNCHANGED <<interrupted, op, was_interrupted, orphans, op_result, ops_done, args,
                   post_read, invoked_interrupted, spawned>>
    /\ UNCHANGED copy_vars
    /\ UNCHANGED <<pc, parse_vars, env_vars>>

\* "Handle the result."
HandleResult ==
    /\ dpc = "handle"
    /\ post_read' = IF success(status[1]) THEN None ELSE PostRead(status[1], was_interrupted, interrupted)
    /\ interrupted' = FlagAfter(status[1], was_interrupted, interrupted)
    /\ run_result' = HandledResult(Mode, Error, status[1], was_interrupted, interrupted,
                                   child_stdout)
    /\ dpc' = "run_returned"
    /\ UNCHANGED <<op, was_interrupted, child, status, child_stdout, orphans, op_result,
                   ops_done, args, invoked_interrupted, spawned>>
    /\ UNCHANGED copy_vars
    /\ UNCHANGED <<pc, parse_vars, env_vars>>

\* the operation returns what it makes of the private function's result
OperationReturn ==
    /\ dpc = "run_returned"
    /\ op.name # "copy_from_container"
    /\ op_result' = OperationResult(op.name, run_result)
    /\ ops_done' = ops_done + 1
    /\ dpc' = "returned"
    /\ UNCHANGED <<interrupted, op, was_interrupted, child, status, child_stdout, orphans,
                   run_result, args, post_read, invoked_interrupted, spawned>>
    /\ UNCHANGED copy_vars
    /\ UNCHANGED <<pc, parse_vars, env_vars>>

\* the signal handler stores true in the flag
Signal ==
    /\ ~interrupted
    /\ interrupted' = TRUE
    /\ UNCHANGED <<op, dpc, was_interrupted, child, status, child_stdout, orphans,
                   run_result, op_result, ops_done, args, post_read,
                   invoked_interrupted, spawned>>
    /\ UNCHANGED copy_vars
    /\ UNCHANGED <<pc, parse_vars, env_vars>>

NextRun ==
    \/ Invoke
    \/ LoadInterrupted
    \/ SpawnChild
    \/ WriteStdin
    \/ ChildExit
    \/ OrphanExit
    \/ WaitChild
    \/ HandleResult
    \/ OperationReturn
    \/ Signal

SpecRun == InitRun /\ [][NextRun]_vars

---------------------------------------------------------------------------
(* The state machine of copy_from_container. *)

\* the path the loop is at, and `source`, `destination` and `intermediate`
CurrentPath == Head(todo)

Source == join(SourceDir, CurrentPath)

Destination == join(DestinationDir, CurrentPath)

IntermediatePath == Intermediate(temp_dir[1], Destination)

InitCopy ==
    /\ pc = "docker"
    /\ ParseIdle
    /\ EnvIdle
    /\ RunIdle
    /\ fs \in Hosts
    /\ todo = <<>>
    /\ temp_dir = None
    /\ temps = 0
    /\ entries = <<>>
    /\ copied = <<>>
    /\ first_tree = None

\* CopyReturn, were a failure to take back what the current path had put at
\* the destination
CopyReturnRollingBack(r, files) ==
    /\ op_result' = r
    /\ ops_done' = ops_done + 1
    /\ dpc' = "returned"
    /\ \E kept \in (IF temp_dir = None THEN {files}
                     ELSE remove_dir_all(files, temp_dir[1])) :
          fs' \in IF r.status = "Err" /\ todo # <<>>
                  THEN remove_dir_all(kept, Destination)
                  ELSE {kept}
    /\ temp_dir' = None
    /\ first_tree' = IF r.status = "Ok" /\ first_tree = None
                     THEN Some(TreeAt(fs', DestinationDir))
                     ELSE first_tree

\* copy_from_container returns r from the filesystem `files`; temp_dir, if
\* there is one, is dropped, which removes of the directory what it can
CopyReturn(r, files) ==
    /\ op_result' = r
    /\ ops_done' = ops_done + 1
    /\ dpc' = "returned"
    /\ fs' \in IF temp_dir = None THEN {files} ELSE remove_dir_all(files, temp_dir[1])
    /\ temp_dir' = None
    /\ first_tree' = IF r.status = "Ok" /\ first_tree = None
                     THEN Some(TreeAt(fs', DestinationDir))
                     ELSE first_tree

\* copy_from_container is called; a second call has the arguments of the first
InvokeCopy ==
    /\ dpc \in {"idle", "returned"}
    /\ ops_done < MaxOps
    /\ \E o \in CopyOperations \cup RefusedOperations :
          /\ op.name = "copy_from_container" => o = op
          /\ op' = o
          /\ todo' = o.paths
    /\ dpc' = "next_path"
    /\ invoked_interrupted' = interrupted
    /\ spawned' = FALSE
    /\ run_result' = NoResult
    /\ op_result' = NoResult
    /\ status' = None
    /\ post_read' = None
    /\ args' = <<>>
    /\ copied' = <<>>
    /\ entries' = <<>>
    /\ UNCHANGED <<interrupted, was_interrupted, child, child_stdout, orphans, ops_done>>
    /\ UNCHANGED <<fs, temp_dir, temps, first_tree>>
    /\ UNCHANGED <<pc, parse_vars, env_vars>>

\* an iteration of `for path in paths` begins: tempdir(), and the arguments
\* of the copy-out
BeginPath ==
    /\ dpc = "next_path"
    /\ todo # <<>>
    /\ \E created \in BOOLEAN :
          IF created
          THEN /\ temps' = temps + 1
               /\ temp_dir' = Some(TempDirPath(temps'))
               /\ fs' = Install(fs, EmptyDirTree, TempDirPath(temps'))
               /\ args' = Arguments("copy_from_container", <<>>, Source,
                                    Intermediate(TempDirPath(temps'), Destination))
               /\ dpc' = "load"
               /\ UNCHANGED <<op_result, ops_done, first_tree>>
          ELSE /\ CopyReturn(ErrOf(system_error(<<"Unable to create temporary directory.">>,
                                                "EACCES")), fs)
               /\ UNCHANGED <<temps, args>>
    /\ run_result' = NoResult
    /\ status' = None
    /\ post_read' = None
    /\ UNCHANGED <<interrupted, op, was_interrupted, child, child_stdout, orphans,
                   invoked_interrupted, spawned>>
    /\ UNCHANGED <<todo, entries, copied>>
    /\ UNCHANGED <<pc, parse_vars, env_vars>>

\* the loop is over: Ok(())
FinishCopy ==
    /\ dpc = "next_path"
    /\ todo = <<>>
    /\ CopyReturn(OkOf(Unit), fs)
    /\ UNCHANGED <<interrupted, op, was_interrupted, child, status, child_stdout, orphans,
                   run_result, args, post_read, invoked_interrupted, spawned>>
    /\ UNCHANGED <<todo, temps, entries, copied>>
    /\ UNCHANGED <<pc, parse_vars, env_vars>>

\* the copy-out child terminates: with success once the runtime has put the
\* path of the container at its target; without, having put nothing there,
\* or the part it had extracted when it stopped at a closed directory, or
\* the part it had extracted when a signal ended it: the directories down to
\* the entry it was at, that entry (a file written whole, in part or not at
\* all) and the entries beside them that came first in the archive
CopyChildExit ==
    /\ child = "running"
    /\ op.name = "copy_from_container"
    /\ LET held == CurrentPath \in DOMAIN op.contents
           tree == IF held THEN op.contents[CurrentPath] ELSE FileTree
           outcomes == IF held
                       THEN DockerCp(fs, tree, file_name(Source), IntermediatePath)
                       ELSE {Failed(fs, "ENOENT")}
           reached == {r \in DOMAIN tree :
                          \A n \in 0..(Len(r) - 1) : tree[SubSeq(r, 1, n)] # Locked}
           Beside(stop) ==
               {q \in reached :
                   /\ q # <<>>
                   /\ starts_with(stop, parent(q)) /\ parent(q) # stop
                   /\ ~starts_with(stop, q)
                   /\ \A d \in DOMAIN tree : starts_with(d, q) => tree[d] # Locked}
           Written(stop) == IF is_file(tree, stop) THEN {"", "partial", tree[stop]}
                            ELSE {tree[stop]}
           Part(stop, chosen, written) ==
               [r \in {q \in DOMAIN tree :
                          \/ starts_with(stop, q)
                          \/ \E c \in chosen : starts_with(q, c)} |->
                   IF r = stop THEN written ELSE tree[r]]
           stopped == IF held /\ \E cp \in outcomes : cp.error = None
                      THEN UNION {{Failed(Install(fs, Part(stop, cut[1], cut[2]),
                                                  IntermediatePath), "EINTR") :
                                      cut \in (SUBSET Beside(stop)) \X Written(stop)} :
                                  stop \in reached}
                      ELSE {}
       IN  \E cp \in outcomes \cup {Failed(fs, "EINTR")} \cup stopped :
              \E st \in ExitStatuses :
                 /\ success(st) <=> cp.error = None
                 /\ status' = Some(st)
                 /\ fs' = cp.files
    /\ child' = "exited"
    /\ UNCHANGED <<interrupted, op, dpc, was_interrupted, child_stdout, orphans, run_result,
                   op_result, ops_done, args, post_read, invoked_interrupted, spawned>>
    /\ UNCHANGED <<todo, temp_dir, temps, entries, copied, first_tree>>
    /\ UNCHANGED <<pc, parse_vars, env_vars>>

\* run_quiet(..).map(|_| ())? and metadata(&intermediate)..?.is_file(); the
\* metadata of a path that exists is refused when the temporary directory
\* has been closed to the caller since the copy-out, and then the directory
\* cannot be removed either
InspectStaged ==
    /\ dpc = "run_returned"
    /\ op.name = "copy_from_container"
    /\ LET errno == IF IntermediatePath \notin DOMAIN fs THEN Some("ENOENT")
                    ELSE IF op.closed = Some(Len(op.paths) - Len(todo) + 1)
                    THEN Some("EACCES")
                    ELSE None
       IN IF run_result.status = "Err"
          THEN /\ CopyReturn(run_result, fs)
               /\ UNCHANGED entries
          ELSE IF errno # None
          THEN /\ CopyReturn(ErrOf(system_error(
                        <<"Unable to retrieve filesystem metadata for path ">>
                            \o CodeStr(to_string_lossy(IntermediatePath)) \o <<".">>,
                        errno[1])),
                    IF errno = Some("EACCES")
                    THEN [fs EXCEPT ![temp_dir[1]] = Locked]
                    ELSE fs)
               /\ UNCHANGED entries
          ELSE IF is_file(fs, IntermediatePath)
          THEN /\ dpc' = "create_dir_all"
               /\ UNCHANGED <<entries, op_result, ops_done, fs, temp_dir, first_tree>>
          ELSE /\ \E order \in WalkOrders(TreeAt(fs, IntermediatePath)) : entries' = order
               /\ dpc' = "walk"
               /\ UNCHANGED <<op_result, ops_done, fs, temp_dir, first_tree>>
    /\ UNCHANGED <<interrupted, op, was_interrupted, child, status, child_stdout, orphans,
                   run_result, args, post_read, invoked_interrupted, spawned>>
    /\ UNCHANGED <<todo, temps, copied>>
    /\ UNCHANGED <<pc, parse_vars, env_vars>>

\* the staged path is a file: create_dir_all(&destination_dir)..?
CreateParent ==
    /\ dpc = "create_dir_all"
    /\ LET made == create_dir_all(fs, parent(Destination))
       IN  IF made.error # None
           THEN CopyReturn(ErrOf(system_error(
                    <<"Unable to create directory ">>
                        \o CodeStr(to_string_lossy(parent(Destination))) \o <<".">>,
                    made.error[1])), fs)
           ELSE /\ fs' = made.files
                /\ dpc' = "rename"
                /\ UNCHANGED <<op_result, ops_done, temp_dir, first_tree>>
    /\ UNCHANGED <<interrupted, op, was_interrupted, child, status, child_stdout, orphans,
                   run_result, args, post_read, invoked_interrupted, spawned>>
    /\ UNCHANGED <<todo, temps, entries, copied>>
    /\ UNCHANGED <<pc, parse_vars, env_vars>>

\* the message of a rename that failed
MoveMessage(from, to) ==
    <<"Unable to move file ">> \o CodeStr(to_string_lossy(from))
        \o <<" to destination ">> \o CodeStr(to_string_lossy(to)) \o <<".">>

\* the staged path is a file: rename(&intermediate, &destination)..?
RenameStaged ==
    /\ dpc = "rename"
    /\ LET moved == rename(fs, IntermediatePath, Destination)
       IN  IF moved.error # None
           THEN CopyReturn(ErrOf(system_error(MoveMessage(IntermediatePath, Destination),
                                              moved.error[1])), fs)
           ELSE /\ fs' = moved.files
                /\ dpc' = "end_path"
                /\ UNCHANGED <<op_result, ops_done, temp_dir, first_tree>>
    /\ UNCHANGED <<interrupted, op, was_interrupted, child, status, child_stdout, orphans,
                   run_result, args, post_read, invoked_interrupted, spawned>>
    /\ UNCHANGED <<todo, temps, entries, copied>>
    /\ UNCHANGED <<pc, parse_vars, env_vars>>

\* one iteration of `for entry in WalkDir::new(&intermediate)`: the walk
\* yields the next entry, or the error of a directory it cannot read
WalkEntry ==
    /\ dpc = "walk"
    /\ entries # <<>>
    /\ LET entry == Head(entries)
           entry_path == IntermediatePath \o entry.path
           destination_path == join(Destination, strip_prefix(entry_path, IntermediatePath))
           made == create_dir_all(fs, destination_path)
           moved == rename(fs, entry_path, destination_path)
       IN  IF entry.error # None
           THEN /\ CopyReturn(ErrOf(system_error(
                         <<"Unable to traverse directory ">>
                             \o CodeStr(to_string_lossy(IntermediatePath)) \o <<".">>,
                         entry.error[1])), fs)
                /\ UNCHANGED entries
           ELSE IF is_dir(fs, entry_path)
           THEN IF made.error # None
                THEN /\ CopyReturn(ErrOf(system_error(
                              <<"Unable to create directory ">>
                                  \o CodeStr(to_string_lossy(destination_path)) \o <<".">>,
                              made.error[1])), fs)
                     /\ UNCHANGED entries
                ELSE /\ fs' = made.files
                     /\ entries' = Tail(entries)
                     /\ dpc' = IF Tail(entries) = <<>> THEN "end_path" ELSE "walk"
                     /\ UNCHANGED <<op_result, ops_done, temp_dir, first_tree>>
           ELSE IF moved.error # None
           THEN /\ CopyReturn(ErrOf(system_error(MoveMessage(entry_path, destination_path),
                                                 moved.error[1])), fs)
                /\ UNCHANGED entries
           ELSE /\ fs' = moved.files
                /\ entries' = Tail(entries)
                /\ dpc' = IF Tail(entries) = <<>> THEN "end_path" ELSE "walk"
                /\ UNCHANGED <<op_result, ops_done, temp_dir, first_tree>>
    /\ UNCHANGED <<interrupted, op, was_interrupted, child, status, child_stdout, orphans,
                   run_result, args, post_read, invoked_interrupted, spawned>>
    /\ UNCHANGED <<todo, temps, copied>>
    /\ UNCHANGED <<pc, parse_vars, env_vars>>

\* the iteration ends: temp_dir goes out of scope
EndPath ==
    /\ dpc = "end_path"
    /\ fs' \in remove_dir_all(fs, temp_dir[1])
    /\ temp_dir' = None
    /\ todo' = Tail(todo)
    /\ dpc' = "next_path"
    /\ UNCHANGED <<interrupted, op, was_interrupted, child, status, child_stdout, orphans,
                   run_result, op_result, ops_done, args, post_read,
                   invoked_interrupted, spawned>>
    /\ UNCHANGED <<temps, entries, copied, first_tree>>
    /\ UNCHANGED <<pc, parse_vars, env_vars>>

NextCopy ==
    \/ InvokeCopy
    \/ BeginPath
    \/ FinishCopy
    \/ LoadInterrupted
    \/ SpawnChild
    \/ CopyChildExit
    \/ WaitChild
    \/ HandleResult
    \/ InspectStaged
    \/ CreateParent
    \/ RenameStaged
    \/ WalkEntry
    \/ EndPath
    \/ Signal

SpecCopy == InitCopy /\ [][NextCopy]_vars

---------------------------------------------------------------------------
(* What the claims speak of, stated without the validator's own code. *)

\* serde accepts the mapping: no key outside the schema, no required key absent
WellFormed(raw) ==
    /\ DOMAIN raw \subseteq ToastfileFields
    /\ {"image", "tasks"} \subseteq DOMAIN raw
    /\ \A name \in DOMAIN raw["tasks"] : DOMAIN raw["tasks"][name] \subseteq TaskFields

Tasks == toastfile.tasks

Finished == pc = "done"

\* parse has a Toastfile in hand
Deserialized == pc # "deserialize" /\ WellFormed(toastfile_data)

PathsValidate ==
    \A name \in DOMAIN Tasks :
        /\ \A i \in DOMAIN Tasks[name].input_paths : ~is_absolute(Tasks[name].input_paths[i])
        /\ \A i \in DOMAIN Tasks[name].output_paths : ~is_absolute(Tasks[name].output_paths[i])
        /\ is_absolute(Tasks[name].location)

CachingValidates ==
    \A name \in DOMAIN Tasks :
        (Tasks[name].ports # <<>> \/ Tasks[name].watch) => ~Tasks[name].cache

\* the names a task lists that are no task
MissingOf(name) == {d \in Range(Tasks[name].dependencies) : d \notin DOMAIN Tasks}

\* the tasks that list a name that is no task
Offenders == {name \in DOMAIN Tasks : MissingOf(name) # {}}

DependenciesResolve == Offenders = {}

DefaultValidates == toastfile.default = None \/ toastfile.default[1] \in DOMAIN Tasks

\* the dependency relation and its transitive closure
DependsOn(a, b) == a \in DOMAIN Tasks /\ b \in Range(Tasks[a].dependencies)

TaskPairs == (DOMAIN Tasks) \X (DOMAIN Tasks)

Edges == {e \in TaskPairs : DependsOn(e[1], e[2])}

RECURSIVE Closure(_, _)
Closure(R, n) ==
    IF n = 0 THEN R
    ELSE Closure(R \cup {e \in TaskPairs :
                            \E b \in DOMAIN Tasks : <<e[1], b>> \in R /\ <<b, e[2]>> \in Edges},
                 n - 1)

Reaches == Closure(Edges, Cardinality(DOMAIN Tasks))

Cyclic == LET reaches == Reaches IN \E t \in DOMAIN Tasks : <<t, t>> \in reaches

Accepted == Finished /\ result = Ok

Rejected == Finished /\ result.status = "Err"

\* the number of traversals the outer loop of the cycle detection has begun
Traversals == Cardinality(DOMAIN Tasks) - Cardinality(remaining)

---------------------------------------------------------------------------
(* C1 *)

\* C1: for a manifest whose paths, caching settings, dependency names and
\* default all validate, parse accepts if and only if the dependency relation
\* is acyclic, and a cyclic one is rejected with a message containing "cyclic",
\* whichever task each traversal starts from.
C1_AcceptsIffAcyclic ==
    (Finished /\ Deserialized /\ PathsValidate /\ CachingValidates
        /\ DependenciesResolve /\ DefaultValidates)
    => /\ (result = Ok) <=> ~Cyclic
       /\ Cyclic => (result.status = "Err" /\ Contains(result.message, CyclicPhrase))

\* a cycle reported by a traversal that is not the first one over three tasks
C1_Witness ==
    /\ Rejected /\ Deserialized
    /\ Cardinality(DOMAIN Tasks) = 3
    /\ Cyclic
    /\ Traversals >= 2
    /\ visited # {}
    /\ Contains(result.message, CyclicPhrase)

---------------------------------------------------------------------------
(* C2 *)

\* the positions of a message that hold the given fragment
Positions(msg, frag) == {i \in DOMAIN msg : msg[i] = frag}

\* the message lists the task, followed in parentheses by exactly the names
\* in `names`: "`task` (`a`, `b`, and `c`)"
ListsWith(msg, name, names) ==
    \E i \in DOMAIN msg : \E j \in DOMAIN msg :
        /\ i + 3 < j
        /\ SubSeq(msg, i, i + 3) = CodeStr(name) \o <<" (">>
        /\ msg[j] = ")"
        /\ \A k \in (i + 4)..(j - 1) : msg[k] # ")"
        /\ {msg[k] : k \in (i + 4)..(j - 1)} \cap DependencyNames = names

\* the message enumerates every offender, once, with all its missing names,
\* and no task whose dependencies all resolve
EnumeratesOffenders(msg) ==
    /\ \A name \in Offenders :
          /\ ListsWith(msg, name, MissingOf(name))
          /\ Cardinality(Positions(msg, name)) = 1
    /\ \A name \in DOMAIN Tasks \ Offenders : ~Contains(msg, name)
    /\ Cardinality(Positions(msg, " (")) = Cardinality(Offenders)

\* C2 as stated: whenever a task lists a name that is no task, parse rejects
\* with one message that enumerates every offending task with all its missing
\* names and no other task.
C2_AsStated ==
    (Finished /\ Deserialized /\ ~DependenciesResolve)
    => (result.status = "Err" /\ EnumeratesOffenders(result.message))

\* C2, amended: the same, for manifests whose paths and caching settings
\* validate, so that parse reaches the dependency check.
C2_MissingDependenciesEnumerated ==
    (Finished /\ Deserialized /\ PathsValidate /\ CachingValidates /\ ~DependenciesResolve)
    => (result.status = "Err" /\ EnumeratesOffenders(result.message))

\* two offending tasks, one of them with two different missing names
C2_Witness ==
    /\ Rejected /\ Deserialized /\ PathsValidate /\ CachingValidates
    /\ Cardinality(Offenders) = 2
    /\ \E name \in Offenders : Cardinality(MissingOf(name)) = 2
    /\ EnumeratesOffenders(result.message)

---------------------------------------------------------------------------
(* C3 *)

DefaultTaskPhrase == "The default task "

\* the message reports the default task as missing
ReportsDefault(msg) ==
    toastfile.default # None
        /\ ContainsRun(msg, <<DefaultTaskPhrase>> \o CodeStr(toastfile.default[1]))

\* C3 as stated: whenever default names no task, parse rejects and the
\* message contains that name.
C3_AsStated ==
    (Finished /\ Deserialized /\ ~DefaultValidates)
    => (result.status = "Err" /\ Contains(result.message, toastfile.default[1]))

\* C3, amended: for manifests whose paths and caching settings validate, a
\* default that names no task is rejected with a message that contains the
\* name, alone when every dependency resolves and together with the offending
\* tasks when some do not; a default that is absent or names a task adds
\* nothing to any error.
C3_InvalidDefaultReported ==
    (Finished /\ Deserialized)
    => /\ (PathsValidate /\ CachingValidates /\ ~DefaultValidates)
          => /\ result.status = "Err"
             /\ Contains(result.message, toastfile.default[1])
             /\ ReportsDefault(result.message)
             /\ ~DependenciesResolve => EnumeratesOffenders(result.message)
             /\ DependenciesResolve => Positions(result.message, " (") = {}
       /\ DefaultValidates => ~Contains(result.message, DefaultTaskPhrase)

\* a missing default reported together with a missing dependency
C3_Witness ==
    /\ Rejected /\ Deserialized /\ PathsValidate /\ CachingValidates
    /\ ~DefaultValidates /\ ~DependenciesResolve
    /\ ReportsDefault(result.message)
    /\ EnumeratesOffenders(result.message)

---------------------------------------------------------------------------
(* C4 *)

\* the message names the task, the field and the path
Identifies(msg, name, label, path) ==
    /\ ContainsRun(msg, <<"Task ">> \o CodeStr(name))
    /\ ContainsRun(msg, CodeStr(label))
    /\ ContainsRun(msg, CodeStr(to_string_lossy(path)))

\* the message identifies a path of the manifest that is of the wrong kind,
\* with its task and its field
IdentifiesOffence(msg) ==
    \E name \in DOMAIN Tasks :
        \/ \E i \in DOMAIN Tasks[name].input_paths :
              /\ is_absolute(Tasks[name].input_paths[i])
              /\ Identifies(msg, name, "input_path", Tasks[name].input_paths[i])
        \/ \E i \in DOMAIN Tasks[name].output_paths :
              /\ is_absolute(Tasks[name].output_paths[i])
              /\ Identifies(msg, name, "output_path", Tasks[name].output_paths[i])
        \/ /\ is_relative(Tasks[name].location)
           /\ Identifies(msg, name, "location", Tasks[name].location)

\* C4: parse accepts only manifests whose input and output paths are all
\* relative and whose locations are all absolute; any other manifest is
\* rejected with a message that identifies the task, the offending field and
\* the offending path.
C4_PathKindsEnforced ==
    (Finished /\ Deserialized)
    => /\ result = Ok => PathsValidate
       /\ ~PathsValidate => (result.status = "Err" /\ IdentifiesOffence(result.message))

---------------------------------------------------------------------------
(* C5 *)

DisableCachingPhrase == "cache: false"

\* the message asks to disable caching for a task that has caching enabled
\* and exposes ports or watches the filesystem
AsksToDisableCaching(msg) ==
    /\ ContainsRun(msg, CodeStr(DisableCachingPhrase))
    /\ \E name \in DOMAIN Tasks :
          /\ ContainsRun(msg, <<"Task ">> \o CodeStr(name))
          /\ Tasks[name].cache
          /\ Tasks[name].ports # <<>> \/ Tasks[name].watch

\* C5 as stated: a task with cache = true that exposes ports or watches
\* makes parse reject with a message asking to disable caching.
C5_AsStated ==
    (Finished /\ Deserialized /\ ~CachingValidates)
    => (result.status = "Err" /\ AsksToDisableCaching(result.message))

\* C5, amended: parse accepts only manifests in which every task with ports
\* or watch has cache = false; a manifest whose paths validate and that has a
\* task with cache = true and ports or watch is rejected with a message asking
\* to disable caching for such a task; a task with cache = false is never the
\* subject of a caching error.
C5_CachingEnforced ==
    (Finished /\ Deserialized)
    => /\ result = Ok => CachingValidates
       /\ ~CachingValidates => result.status = "Err"
       /\ (PathsValidate /\ ~CachingValidates) => AsksToDisableCaching(result.message)
       /\ Contains(result.message, DisableCachingPhrase)
             => /\ ~CachingValidates
                /\ AsksToDisableCaching(result.message)
                /\ \A name \in DOMAIN Tasks :
                      ContainsRun(result.message, <<"Task ">> \o CodeStr(name))
                      => (Tasks[name].cache
                             /\ (Tasks[name].ports # <<>> \/ Tasks[name].watch))

\* a watching task with caching on is rejected next to a task that exposes
\* ports with caching off
C5_Witness ==
    /\ Rejected /\ Deserialized /\ PathsValidate
    /\ AsksToDisableCaching(result.message)
    /\ \E name \in DOMAIN Tasks :
          Tasks[name].watch /\ Tasks[name].cache /\ Tasks[name].ports = <<>>
    /\ \E name \in DOMAIN Tasks : ~Tasks[name].cache /\ Tasks[name].ports # <<>>

---------------------------------------------------------------------------
(* C6 *)

\* no step of the validation proper has been taken
NothingChecked ==
    /\ checks = <<>>
    /\ toastfile = NoToastfile
    /\ violations = EmptyMap
    /\ pops = 0 /\ visited = {} /\ frontier = <<>>

\* C6: a manifest with a key outside the schema, at the top level or inside a
\* task, or without the required image or tasks key, is rejected, and none of
\* the validation checks runs for it.
C6_SchemaEnforced ==
    (pc # "deserialize" /\ ~WellFormed(toastfile_data))
    => (Rejected /\ NothingChecked)

\* a task with an unknown key and an absolute input path is rejected before
\* any check
C6_Witness ==
    /\ Rejected /\ NothingChecked
    /\ ToastfileFields \subseteq DOMAIN toastfile_data
    /\ DOMAIN toastfile_data \subseteq ToastfileFields
    /\ \E name \in DOMAIN toastfile_data["tasks"] :
          /\ ~(DOMAIN toastfile_data["tasks"][name] \subseteq TaskFields)
          /\ "input_paths" \in DOMAIN toastfile_data["tasks"][name]

---------------------------------------------------------------------------
(* C7 *)

CheckOrder == <<"check_paths", "check_caching", "check_dependencies">>

IsCyclicMessage(msg) == Contains(msg, CyclicPhrase)

\* the category of the checks the message belongs to, 1 to 4
CategoriesOf(msg) ==
    LET text == Pieces(msg)
        path == Within(text, <<" has an absolute ">>) \/ Within(text, <<" has a relative ">>)
        caching == Within(text, <<DisableCachingPhrase>>)
        existence ==
            Within(text, <<DefaultTaskPhrase>>)
                \/ Within(text, <<"The following tasks have invalid dependencies: ">>)
        cyclic == Within(text, <<CyclicPhrase>>)
    IN  {c \in 1..4 : \/ c = 1 /\ path
                      \/ c = 2 /\ caching
                      \/ c = 3 /\ existence
                      \/ c = 4 /\ cyclic}

\* the categories the manifest violates
Violated ==
    {c \in 1..4 : \/ c = 1 /\ ~PathsValidate
                  \/ c = 2 /\ ~CachingValidates
                  \/ c = 3 /\ (~DependenciesResolve \/ ~DefaultValidates)
                  \/ c = 4 /\ DependenciesResolve /\ Cyclic}

\* C7: the checks run in the order path kinds, cache consistency, dependency
\* existence with the default, acyclicity; the error returned is that of the
\* earliest category the manifest violates; the cycle detection runs only
\* when every dependency name resolves.
C7_EarliestCategoryReported ==
    /\ \E n \in 0..Len(CheckOrder) : checks = SubSeq(CheckOrder, 1, n)
    /\ (pc \in {"cycle_outer", "cycle_inner"} \/ pops > 0)
          => (checks = CheckOrder /\ Deserialized /\ DependenciesResolve /\ DefaultValidates)
    /\ (Finished /\ Deserialized)
          => LET violated == Violated
                 earliest == CHOOSE c \in violated : \A d \in violated : c <= d
             IN  /\ result.status \in {"Ok", "Err"}
                 /\ (result = Ok) <=> (violated = {})
                 /\ violated # {}
                       => /\ CategoriesOf(result.message) = {earliest}
                          /\ Len(checks) <= earliest
                          /\ Len(checks) >= earliest - 1

\* a manifest that violates the path, the caching and the existence
\* categories at once is reported for its paths
C7_Witness ==
    /\ Rejected /\ Deserialized
    /\ {1, 2, 3} \subseteq Violated
    /\ CategoriesOf(result.message) = {1}
    /\ checks = <<"check_paths">>

---------------------------------------------------------------------------
(* C8 *)

\* the task after position i on a cycle
Successor(c, i) == c[(i % Len(c)) + 1]

\* every task of the sequence depends on the next one, the last on the first
IsDependencyCycle(c) ==
    /\ c # <<>>
    /\ \A i \in DOMAIN c : DependsOn(c[i], Successor(c, i))

\* the only tasks that reach themselves do so by listing themselves
OnlySelfDependencies ==
    LET reaches == Reaches
    IN  \A a \in DOMAIN Tasks : \A b \in DOMAIN Tasks :
            (a # b) => ~(<<a, b>> \in reaches /\ <<b, a>> \in reaches)

\* two tasks that list each other, and no task that lists itself
OnlyMutualDependency ==
    /\ Cardinality(DOMAIN Tasks) = 2
    /\ \A a \in DOMAIN Tasks : ~DependsOn(a, a)

\* C8 as stated: a task on the reported cycle that depends directly on
\* itself is always reported as depending on itself, and two tasks on it that
\* depend on each other as depending on each other.
C8_AsStated ==
    (Finished /\ IsCyclicMessage(result.message))
    => /\ \A a \in Range(cycle) :
             DependsOn(a, a) => Contains(result.message, ItselfPhrase)
       /\ \A a \in Range(cycle) : \A b \in Range(cycle) :
             (a # b /\ DependsOn(a, b) /\ DependsOn(b, a))
                => Contains(result.message, EachOtherPhrase)

\* C8, amended: the cycle error is phrased by the number k of distinct tasks
\* on the detected cycle: "X depends on itself." for k = 1, "X and Y depend
\* on each other." for k = 2, a series of k clauses "A depends on B" for
\* k >= 3; a task that depends directly on itself is reported as depending
\* on itself when no two tasks reach each other, and a mutual dependency as
\* depending on each other when its two tasks are the only ones and neither
\* lists itself. The detected cycle is the one the traversal closes first: a
\* task that lists itself and lies on a longer cycle too may be reported with
\* the phrasing of the longer one.
C8_CyclePhrasing ==
    (Finished /\ IsCyclicMessage(result.message))
    => LET k == Cardinality(Range(cycle))
           msg == result.message
       IN  /\ k = Len(cycle)
           /\ IsDependencyCycle(cycle)
           /\ k = 1 <=> ancestors_stack[Len(ancestors_stack)] = cycle[Len(cycle)]
           /\ k = 1 => msg = <<CyclicPhrase>> \o CodeStr(cycle[1]) \o <<ItselfPhrase>>
           /\ k = 2 => msg = <<CyclicPhrase>> \o CodeStr(cycle[1]) \o <<" and ">>
                                \o CodeStr(cycle[2]) \o <<EachOtherPhrase>>
           /\ k >= 3 => /\ Cardinality(Positions(msg, DependsOnPhrase)) = k
                        /\ \A i \in DOMAIN cycle :
                              ContainsRun(msg, CodeStr(cycle[i]) \o <<DependsOnPhrase>>
                                                  \o CodeStr(Successor(cycle, i)))
                        /\ ~Contains(msg, ItselfPhrase)
                        /\ ~Contains(msg, EachOtherPhrase)
                        /\ msg[1] = CyclicPhrase /\ msg[Len(msg)] = "."
           /\ OnlySelfDependencies => Contains(msg, ItselfPhrase)
           /\ OnlyMutualDependency => Contains(msg, EachOtherPhrase)

\* a mutual dependency found below another task: the cycle is shorter than
\* the ancestor stack
C8_Witness ==
    /\ Rejected /\ IsCyclicMessage(result.message)
    /\ Len(cycle) = 2
    /\ Len(ancestors_stack) = 3
    /\ Contains(result.message, EachOtherPhrase)

---------------------------------------------------------------------------
(* C9 and C10 *)

Returned == pc = "returned"

Declared == DOMAIN task.environment

\* the declared names without a default
NullDefaults == {arg \in Declared : task.environment[arg] = None}

\* the host environment defines the name
HostDefines(arg) == arg \in DOMAIN host_env

\* the host environment defines the name with a value that is valid Unicode
HostDefinesUnicode(arg) == arg \in DOMAIN host_env /\ host_env[arg].unicode

\* the violation list holds exactly the given names, each once
ViolationsAre(names) ==
    /\ Range(env_return.violations) = names
    /\ Len(env_return.violations) = Cardinality(names)

\* C9 as stated: environment returns Ok if and only if every entry without a
\* default has its name defined in the host environment; when it returns Err
\* the violation list holds exactly the names of the entries without default
\* that the host environment does not define, each once.
C9_AsStated ==
    Returned
    => /\ env_return.status = "Ok" <=> \A arg \in NullDefaults : HostDefines(arg)
       /\ env_return.status = "Err"
             => ViolationsAre({arg \in NullDefaults : ~HostDefines(arg)})

\* C9, amended: environment returns Ok if and only if every entry without a
\* default has its name defined in the host environment with a value that is
\* valid Unicode; when it returns Err the violation list holds exactly the
\* names of all the entries without default for which that fails, each once.
C9_MissingVariablesReported ==
    Returned
    => /\ env_return.status \in {"Ok", "Err"}
       /\ env_return.status = "Ok" <=> \A arg \in NullDefaults : HostDefinesUnicode(arg)
       /\ env_return.status = "Err"
             => ViolationsAre({arg \in NullDefaults : ~HostDefinesUnicode(arg)})
       /\ env_return.status = "Ok" => env_return.violations = <<>>

\* two names are reported, one unset and one set to a value that is not Unicode
C9_Witness ==
    /\ Returned
    /\ env_return.status = "Err"
    /\ Len(env_return.violations) = 2
    /\ \E arg \in Range(env_return.violations) : ~HostDefines(arg)
    /\ \E arg \in Range(env_return.violations) : HostDefines(arg)
    /\ \E arg \in Declared : arg \notin Range(env_return.violations)

\* C10 as stated: when environment returns Ok the mapping has exactly the
\* declared keys, each with the host's value if the host defines the name and
\* with the declared default otherwise.
C10_AsStated ==
    (Returned /\ env_return.status = "Ok")
    => /\ DOMAIN env_return.result = Declared
       /\ \A arg \in Declared :
             env_return.result[arg] =
                 IF HostDefines(arg) THEN host_env[arg].text
                 ELSE task.environment[arg][1]

\* C10, amended: when environment returns Ok the mapping has exactly the
\* declared keys, each with the host's value if the host defines the name
\* with valid Unicode and with the declared default otherwise; such a host
\* value always takes precedence over a declared default.
C10_HostValueTakesPrecedence ==
    (Returned /\ env_return.status = "Ok")
    => /\ DOMAIN env_return.result = Declared
       /\ \A arg \in Declared :
             /\ HostDefinesUnicode(arg) => env_return.result[arg] = host_env[arg].text
             /\ ~HostDefinesUnicode(arg)
                   => /\ task.environment[arg] # None
                      /\ env_return.result[arg] = task.environment[arg][1]

\* a default overridden by the host next to a default that is not
C10_Witness ==
    /\ Returned
    /\ env_return.status = "Ok"
    /\ \E arg \in Declared :
          /\ task.environment[arg] # None
          /\ HostDefinesUnicode(arg)
          /\ env_return.result[arg] = host_env[arg].text
          /\ env_return.result[arg] # task.environment[arg][1]
    /\ \E arg \in Declared :
          /\ ~HostDefines(arg)
          /\ env_return.result[arg] = task.environment[arg][1]

---------------------------------------------------------------------------
(* C11 *)

\* the manifest as written: task name -> the mapping of the keys it gives
Written == toastfile_data["tasks"]

\* the value the parsed task carries for a field the manifest omits
OmittedValue(field) ==
    CASE field \in {"dependencies", "input_paths", "output_paths", "ports"} -> <<>>
      [] field = "environment" -> EmptyMap
      [] field = "cache" -> TRUE
      [] field = "watch" -> FALSE
      [] field = "location" -> <<"/", "scratch">>
      [] field = "user" -> "root"
      [] field = "command" -> None

\* the value the parsed task carries for a field the manifest gives
GivenValue(field, value) == IF field = "command" THEN Some(value) ELSE value

\* C11: once parse has deserialized the manifest, every task has each field
\* the manifest omits at its default (the four lists and the environment
\* empty, cache true, watch false, location /scratch, user root, command
\* absent) and each given field exactly as written, lists in their written
\* order; the image and the default are as written; a manifest with an empty
\* task map and no default is accepted with an empty task map and no default.
C11_DefaultsAndGivenFields ==
    Deserialized
    => /\ DOMAIN Tasks = DOMAIN Written
       /\ toastfile.image = toastfile_data["image"]
       /\ toastfile.default = (IF "default" \in DOMAIN toastfile_data
                               THEN Some(toastfile_data["default"]) ELSE None)
       /\ \A name \in DOMAIN Written :
             /\ DOMAIN Tasks[name] = TaskFields
             /\ \A field \in TaskFields :
                   Tasks[name][field] =
                       IF field \in DOMAIN Written[name]
                       THEN GivenValue(field, Written[name][field])
                       ELSE OmittedValue(field)
       /\ (Finished /\ Written = EmptyMap /\ "default" \notin DOMAIN toastfile_data)
             => (result = Ok /\ Tasks = EmptyMap /\ toastfile.default = None)

\* an accepted manifest whose task gives its dependencies, caching fields and
\* paths and omits the user and the command
C11_Witness ==
    /\ Accepted
    /\ \E name \in DOMAIN Written :
          /\ {"cache", "ports", "input_paths", "location"} \subseteq DOMAIN Written[name]
          /\ {"user", "command", "environment"} \cap DOMAIN Written[name] = {}
          /\ Tasks[name].cache = FALSE
          /\ Tasks[name].ports # <<>>
          /\ Tasks[name].input_paths # <<>>
          /\ Tasks[name].location # DEFAULT_LOCATION
          /\ Tasks[name].user = "root"
          /\ Tasks[name].command = None

---------------------------------------------------------------------------
(* C12 *)

\* the Toastfile a well-formed manifest stands for, from the manifest alone
ManifestValue(raw) ==
    [image   |-> raw["image"],
     default |-> IF "default" \in DOMAIN raw THEN Some(raw["default"]) ELSE None,
     tasks   |-> [name \in DOMAIN raw["tasks"] |->
                     [field \in TaskFields |->
                         IF field \in DOMAIN raw["tasks"][name]
                         THEN GivenValue(field, raw["tasks"][name][field])
                         ELSE OmittedValue(field)]]]

\* how an invocation of parse ended: 0 accepted, 1 to 4 rejected by that
\* check category, 5 rejected by the deserializer, 6 anything else
OutcomeOf(r) ==
    IF r = Ok THEN 0
    ELSE IF r.status # "Err" THEN 6
    ELSE LET categories == CategoriesOf(r.message)
         IN  IF Cardinality(categories) = 1 THEN CHOOSE c \in categories : TRUE
             ELSE IF categories = {}
                     /\ (Contains(r.message, "unknown field ")
                            \/ Contains(r.message, "missing field "))
             THEN 5
             ELSE 6

\* the outcome the manifest determines, whatever order its tasks are met in
OutcomeOfInput ==
    IF ~WellFormed(toastfile_data) THEN 5
    ELSE LET violated == Violated
         IN  IF violated = {} THEN 0
             ELSE CHOOSE c \in violated : \A d \in violated : c <= d

\* the tasks whose paths do not validate
PathOffenders == {name \in DOMAIN Tasks : TaskPathError(name, Tasks[name]) # None}

\* C12: the outcome of parse is a function of its input: the Toastfile it
\* works on and returns is the one the manifest stands for, and whether it
\* accepts, and the check category it rejects in, are determined by the
\* manifest alone, whatever order the task map is iterated in; so two
\* invocations on equal inputs both accept with equal manifests or both
\* reject in the same category.
C12_OutcomeDeterminedByInput ==
    /\ Deserialized => toastfile = ManifestValue(toastfile_data)
    /\ Finished => LET outcome == OutcomeOfInput
                   IN  /\ OutcomeOf(result) = outcome
                       /\ outcome \in 0..5
                       /\ result = Ok => toastfile = ManifestValue(toastfile_data)

\* two tasks have invalid paths and the message names one of them: another
\* iteration order yields another message, in the same category
C12_Witness ==
    /\ Rejected /\ Deserialized
    /\ OutcomeOf(result) = 1
    /\ Cardinality(PathOffenders) = 2
    /\ \E name \in PathOffenders :
          /\ ContainsRun(result.message, <<"Task ">> \o CodeStr(name))
          /\ \E other \in PathOffenders :
                /\ other # name
                /\ ~ContainsRun(result.message, <<"Task ">> \o CodeStr(other))

---------------------------------------------------------------------------
(* C13 *)

\* the paths of a task that are of the wrong kind
OffendingPaths(name) ==
    {Tasks[name].input_paths[i] :
        i \in {j \in DOMAIN Tasks[name].input_paths : is_absolute(Tasks[name].input_paths[j])}}
    \cup {Tasks[name].output_paths[i] :
        i \in {j \in DOMAIN Tasks[name].output_paths : is_absolute(Tasks[name].output_paths[j])}}
    \cup (IF is_relative(Tasks[name].location) THEN {Tasks[name].location} ELSE {})

\* the message names the task and the path, whatever it calls the field
Reports(msg, name, path) ==
    /\ Contains(msg, name)
    /\ ContainsRun(msg, CodeStr(to_string_lossy(path)))

\* C13: the path error accumulates: when the paths of a manifest do not
\* validate, the message parse rejects it with reports every offending path
\* of every task, each with its task, as the dependency error reports every
\* task with a missing dependency.
C13_PathViolationsAccumulate ==
    (Finished /\ Deserialized /\ ~PathsValidate)
    => /\ result.status = "Err"
       /\ \A name \in DOMAIN Tasks : \A path \in OffendingPaths(name) :
             Reports(result.message, name, path)

---------------------------------------------------------------------------
(* C14 to C18: the subprocess wrappers *)

\* the private function has returned
RunReturned == dpc \in {"run_returned", "returned"}

\* the operation has returned
OperationReturned == dpc = "returned"

\* the step in which the private function returns
RunReturns == dpc # "run_returned" /\ dpc' = "run_returned"

\* the step in which the operation returns
OperationReturns == dpc = "run_returned" /\ dpc' = "returned"

\* the child of the operation has terminated, with success
ExitedWithSuccess == status # None /\ success(status[1])

\* the child of the operation has terminated, without success
ExitedWithoutSuccess == status # None /\ ~success(status[1])

\* the private function waited for the child and got a status that is no
\* success
ChildFailed == RunReturned /\ status # None /\ ~success(status[1])

\* the private function waited for the child and got a success status
ChildSucceeded == RunReturned /\ status # None /\ success(status[1])

\* the number of children that are running
Alive == orphans + (IF child = "running" THEN 1 ELSE 0)

\* C14 as stated: in each of the four modes, when the child has ended
\* without success the result is Interrupted if and only if the child has no
\* exit code or the flag was clear when read before the spawn and set when
\* read after the child ended, and then the flag is set when the function
\* returns; in every other such case the result is a System failure.
C14_AsStated ==
    [][(RunReturns /\ ExitedWithoutSuccess)
          => /\ run_result'.status = "Err"
             /\ run_result'.failure = Interrupted
                   <=> (status[1].code = None
                           \/ (~was_interrupted /\ post_read' = Some(TRUE)))
             /\ run_result'.failure = Interrupted => interrupted'
             /\ run_result'.failure # Interrupted
                   => run_result'.failure.kind = "System"]_vars

\* C14, amended: in each of the four modes, a private function that has
\* waited for its child and got a status that is no success returns
\* Interrupted if and only if the child has no exit code or the flag was
\* clear when read before the spawn and set when read after the wait, and
\* then the flag is set when the function returns; in every other such case
\* it returns a System failure, also for a non-zero exit code while the flag
\* was set before the spawn. When the child has ended without success but
\* the caller's writer or the wait fails, the function returns that System
\* failure, also for a child without exit code, and leaves the flag as it is.
C14_InterruptionClassified ==
    [][(RunReturns /\ ExitedWithoutSuccess)
          => /\ run_result'.status = "Err"
             /\ dpc = "handle"
                   => /\ run_result'.failure = Interrupted
                            <=> (status[1].code = None
                                    \/ (~was_interrupted /\ post_read' = Some(TRUE)))
                      /\ run_result'.failure = Interrupted => interrupted'
                      /\ run_result'.failure # Interrupted
                            => run_result'.failure.kind = "System"
                      /\ (status[1].code # None /\ was_interrupted)
                            => run_result'.failure.kind = "System"
             /\ dpc # "handle"
                   => /\ dpc \in {"write", "wait"}
                      /\ run_result'.failure.kind = "System"
                      /\ interrupted' = interrupted]_vars

\* run_loud_stdin: a child that exits with a code while the flag flips
C14_Witness ==
    /\ ChildFailed
    /\ Mode = "run_loud_stdin"
    /\ status[1].code = Some(1)
    /\ ~was_interrupted
    /\ post_read = Some(TRUE)
    /\ run_result = ErrOf(Interrupted)

\* C15 as stated: image_exists returns Ok(true) exactly when the inspect
\* child exits with success: whatever run_quiet returns for such a child,
\* image_exists makes Ok(true) of it.
C15_AsStated ==
    [][(RunReturns /\ op.name = "image_exists" /\ ExitedWithSuccess)
          => OperationResult(op.name, run_result') = OkOf(TRUE)]_vars

\* C15, amended: image_exists returns Ok(true) exactly when run_quiet has
\* waited for the inspect child and got a success status, Err(Interrupted)
\* exactly when run_quiet returns Interrupted, and Ok(false) in every other
\* case: a non-zero exit code, a failure to start the runtime, and a failure
\* of the wait, whatever the status of the child; it never returns a System
\* or User failure.
C15_ImageExists ==
    (OperationReturned /\ op.name = "image_exists")
    => /\ op_result = OkOf(TRUE) <=> ChildSucceeded
       /\ op_result = ErrOf(Interrupted) <=> run_result = ErrOf(Interrupted)
       /\ (~ChildSucceeded /\ run_result # ErrOf(Interrupted)) => op_result = OkOf(FALSE)
       /\ (ChildFailed /\ status[1].code # None /\ was_interrupted) => op_result = OkOf(FALSE)
       /\ ~spawned => op_result = OkOf(FALSE)
       /\ op_result.status = "Err" => op_result.failure = Interrupted

\* the runtime could not be started and image_exists answers false
C15_Witness ==
    /\ OperationReturned /\ op.name = "image_exists"
    /\ ~spawned
    /\ run_result.status = "Err" /\ run_result.failure.kind = "System"
    /\ op_result = OkOf(FALSE)

\* C16: the interruption flag is monotone: no step of an operation or of the
\* signal handler takes it from true to false.
C16_FlagMonotone == [][interrupted => interrupted']_vars

\* an operation whose child succeeded has returned Ok with the flag set
\* before it was invoked and still set
C16_Witness ==
    /\ OperationReturned
    /\ invoked_interrupted
    /\ ChildSucceeded
    /\ op_result.status = "Ok"
    /\ interrupted

\* C17: an operation invoked with the interruption flag already set spawns no
\* child.
C17_NoSpawnWhenInterrupted == invoked_interrupted => ~spawned

\* C18: at most one child is running at any time, and an operation returns
\* only when the child it spawned has terminated.
C18_OneChildAtATime ==
    /\ Alive <= 1
    /\ RunReturned => Alive = 0

---------------------------------------------------------------------------
(* C19 and C20: copy_from_container *)

\* copy_from_container is between tempdir() and the end of the copy-out child
CopyingOut ==
    /\ op.name = "copy_from_container"
    /\ dpc \in {"load", "spawn", "wait"}
    /\ child # "exited"

\* the tree below the destination directory
DestinationTree == TreeAt(fs, DestinationDir)

\* the destination holds what the container holds at the path
Delivered(path) ==
    /\ join(DestinationDir, path) \in DOMAIN fs
    /\ \A r \in DOMAIN op.contents[path] :
          /\ DestinationDir \o path \o r \in DOMAIN fs
          /\ fs[DestinationDir \o path \o r] = op.contents[path][r]

\* C19: every copy-out is aimed at a path inside the temporary directory
\* created for it, and nothing exists at that path until the child puts it
\* there; once copy_from_container has succeeded, a second run with the same
\* container contents, paths and destination leaves the destination tree as
\* the first run left it, at every step of the second run; after a
\* successful run every declared path exists below the destination with the
\* contents the container holds.
C19_CopyIdempotent ==
    /\ CopyingOut
          => /\ is_dir(fs, temp_dir[1])
             /\ parent(temp_dir[1]) = TempRoot
             /\ parent(IntermediatePath) = temp_dir[1]
             /\ IntermediatePath \notin DOMAIN fs
             /\ args[Len(args)] = to_string_lossy(IntermediatePath)
    /\ first_tree # None => DestinationTree = first_tree[1]
    /\ (OperationReturned /\ op.name = "copy_from_container" /\ op_result.status = "Ok")
          => \A i \in DOMAIN op.paths : Delivered(op.paths[i])

\* a directory was copied twice over an earlier output of the same name: the
\* second run is over and the tree is as after the first
C19_Witness ==
    /\ OperationReturned
    /\ ops_done = 2
    /\ op_result.status = "Ok"
    /\ first_tree # None
    /\ <<"out">> \in Range(op.paths)
    /\ op.contents[<<"out">>] = DirTree
    /\ is_file(fs, join(DestinationDir, <<"out", "stale">>))
    /\ is_file(fs, join(DestinationDir, <<"out", "sub", "g">>))
    /\ join(DestinationDir, <<"out", "out">>) \notin DOMAIN fs

\* C20: no run of copy_from_container fails because a rename crossed from
\* one filesystem to another: such a file is copied and deleted instead, it
\* reaches the destination and the operation goes on.
C20_RenameFallsBack ==
    (OperationReturned /\ op.name = "copy_from_container")
    => ~(op_result.status = "Err" /\ op_result.failure.source = Some("EXDEV"))

---------------------------------------------------------------------------
(* C21: create_container *)

\* a is container, create, --init, --interactive, one --publish pair per port
\* in the order of ports, the image and /bin/sh, and nothing else
IsCreateCommand(a, ports) ==
    /\ Len(a) = 6 + 2 * Len(ports)
    /\ SubSeq(a, 1, 4) = <<"container", "create", "--init", "--interactive">>
    /\ \A i \in DOMAIN ports :
          /\ a[3 + 2 * i] = "--publish"
          /\ a[4 + 2 * i] = ports[i]
    /\ a[Len(a) - 1] = Image
    /\ a[Len(a)] = "/bin/sh"

\* t is s without the whitespace around it
IsTrimmed(t, s) ==
    \E i \in 1..(Len(s) + 1), j \in 0..Len(s) :
        /\ t = SubSeq(s, i, j)
        /\ \A k \in 1..(i - 1) : s[k] \in Whitespace
        /\ \A k \in (j + 1)..Len(s) : s[k] \in Whitespace
        /\ t # <<>> => (t[1] \notin Whitespace /\ t[Len(t)] \notin Whitespace)

\* C21: create_container runs the runtime with exactly container, create,
\* --init, --interactive, one "--publish <port>" pair per port in declaration
\* order, the image and /bin/sh; when the child succeeds it returns the
\* child's standard output without the whitespace around it.
C21_CreateContainer ==
    op.name = "create_container"
    => /\ IsCreateCommand(args, op.ports)
       /\ (OperationReturned /\ ChildSucceeded)
             => /\ op_result.status = "Ok"
                /\ IsTrimmed(op_result.value, child_stdout)

\* two ports were published and the identifier came surrounded by whitespace
C21_Witness ==
    /\ op.name = "create_container"
    /\ op.ports = <<"8080:8080", "3000:80">>
    /\ OperationReturned
    /\ ChildSucceeded
    /\ args = <<"container", "create", "--init", "--interactive",
                "--publish", "8080:8080", "--publish", "3000:80", Image, "/bin/sh">>
    /\ child_stdout = <<" ", "c", "1", "\n">>
    /\ op_result = OkOf(<<"c", "1">>)

---------------------------------------------------------------------------
(* C22 to C25: the cycle detection of check_dependencies *)

\* the pair the next iteration of the inner loop pops
Top == frontier[Len(frontier)]

\* the step is an iteration of the inner loop
Pops == pc = "cycle_inner" /\ pops' = pops + 1

\* the step is the iteration that reports a cycle
ReportsCycle == Pops /\ result'.status = "Err"

\* s is a path of dependency edges
IsDependencyPath(s) == \A i \in 1..(Len(s) - 1) : DependsOn(s[i], s[i + 1])

\* c is what follows the first occurrence of t in s, and then t
FollowsFirstOccurrence(c, s, t) ==
    \E f \in DOMAIN s :
        /\ s[f] = t
        /\ \A j \in 1..(f - 1) : s[j] # t
        /\ c = SubSeq(s, f + 1, Len(s)) \o <<t>>

\* no element occurs twice in s
NoTaskTwice(s) == \A i \in DOMAIN s : \A j \in DOMAIN s : s[i] = s[j] => i = j

\* every clause "X depends on Y" of the message names a dependency Y of X
ClausesAreDependencies(msg) ==
    \A i \in DOMAIN msg :
        msg[i] = DependsOnPhrase => DependsOn(msg[i - 2], msg[i + 2])

\* C22: when check_dependencies reports a cycle, the ancestor stack is a path
\* of dependency edges that starts at the task of the outer loop and whose
\* top element lists the popped task; the reported sequence is what follows
\* the first occurrence of the popped task on that path, then the popped
\* task; it holds no task twice, and for every clause "X depends on Y" of the
\* message Y is among the dependencies of X.
C22_ReportedCycleIsGenuine ==
    [][ReportsCycle
        => /\ ancestors_stack' # <<>>
           /\ ancestors_stack'[1] = outer_task[1]
           /\ IsDependencyPath(ancestors_stack')
           /\ DependsOn(ancestors_stack'[Len(ancestors_stack')], Top[1])
           /\ FollowsFirstOccurrence(cycle', ancestors_stack', Top[1])
           /\ NoTaskTwice(cycle')
           /\ IsDependencyCycle(cycle')
           /\ ClausesAreDependencies(result'.message)]_vars

\* a cycle of three tasks was reported, reached through the whole stack
C22_Witness ==
    /\ Rejected /\ IsCyclicMessage(result.message)
    /\ Len(ancestors_stack) = 3
    /\ Len(cycle) = 3
    /\ ancestors_stack[1] = outer_task[1]
    /\ Cardinality(Positions(result.message, DependsOnPhrase)) = 3

\* the step is an iteration that marks the popped task visited and pushes it
\* on the ancestor stack
Marks == Pops /\ visited' # visited

\* C23: at every pop of a (task, depth) pair the ancestor stack is at least
\* depth long, so the subtraction does not underflow and no pop of the stack
\* fails; the truncation leaves exactly the first depth elements, on which the
\* popped task is pushed if it is marked visited; after the iteration the
\* ancestor set is the set of the elements of the stack and the stack holds
\* no task twice.
C23_StackMatchesDepth ==
    [][Pops
        => /\ Len(ancestors_stack) >= Top[2]
           /\ result'.status # "Panic"
           /\ SubSeq(ancestors_stack', 1, Top[2]) = SubSeq(ancestors_stack, 1, Top[2])
           /\ Len(ancestors_stack') = Top[2] + (IF Marks THEN 1 ELSE 0)
           /\ Marks => ancestors_stack'[Len(ancestors_stack')] = Top[1]
           /\ ancestors_set' = Range(ancestors_stack')
           /\ NoTaskTwice(ancestors_stack')]_vars

\* a traversal that visited three tasks ended on a pop that truncated the
\* stack from three elements to one
C23_Witness ==
    /\ pc = "cycle_outer"
    /\ Cardinality(remaining) = 2
    /\ Cardinality(visited) = 3
    /\ pops = 4
    /\ Len(ancestors_stack) = 1
    /\ ancestors_set = {ancestors_stack[1]}

\* the cycle detection is in progress after the step
Traversing == pc' \in {"cycle_outer", "cycle_inner"}

\* C24: every task name popped from the frontier is a key of the task map and
\* the lookup of its dependencies does not fail; the cycle detection is only
\* ever in progress after check_dependencies scanned the manifest and found no
\* dependency name that is no task.
C24_PoppedTasksResolve ==
    [][/\ Pops => /\ Top[1] \in DOMAIN Tasks
                  /\ result' # Panic("no entry found for key")
       /\ Traversing => /\ checks'[Len(checks')] = "check_dependencies"
                        /\ violations' = EmptyMap
                        /\ DependenciesResolve
                        /\ \A i \in DOMAIN frontier' :
                              frontier'[i][1] \in DOMAIN Tasks]_vars

\* the dependencies of all three tasks were looked up and more pairs wait on
\* the frontier
C24_Witness ==
    /\ pc = "cycle_inner"
    /\ Cardinality(DOMAIN Tasks) = 3
    /\ visited = DOMAIN Tasks
    /\ Len(frontier) >= 2
    /\ result = Pending

\* the number of entries of the dependencies lists of the given tasks
RECURSIVE DependencyEntries(_)
DependencyEntries(names) ==
    IF names = {} THEN 0
    ELSE LET name == CHOOSE n \in names : TRUE
         IN  Len(Tasks[name].dependencies) + DependencyEntries(names \ {name})

\* the step is an iteration that pushes pairs on the frontier
Pushes == Pops /\ frontier' # SubSeq(frontier, 1, Len(frontier) - 1)

\* C25: check_dependencies terminates on every manifest, cyclic or not; a
\* task is marked visited only when it is not yet visited, pairs are pushed
\* on a frontier only in the iteration that marks their task visited, and the
\* number of frontier pops never exceeds the number of tasks plus the number
\* of dependency entries.
C25_Terminates ==
    /\ <>Finished
    /\ [](pops <= Cardinality(DOMAIN Tasks) + DependencyEntries(DOMAIN Tasks))
    /\ [][Marks => (Top[1] \notin visited /\ visited' = visited \cup {Top[1]})]_vars
    /\ [][Pushes => Marks]_vars

\* an acyclic manifest of three tasks and four dependency entries was
\* accepted after seven pops
C25_Witness ==
    /\ Accepted
    /\ Cardinality(DOMAIN Tasks) = 3
    /\ DependencyEntries(DOMAIN Tasks) = 4
    /\ visited = DOMAIN Tasks
    /\ pops = 7

---------------------------------------------------------------------------
(* C26: a child that exits with success *)

\* C26 as stated: an operation whose child exits with success returns Ok and
\* does not change the interruption flag.
C26_AsStated ==
    [][/\ (RunReturns /\ ExitedWithSuccess)
             => /\ run_result'.status = "Ok"
                /\ interrupted' = interrupted
       /\ (OperationReturns /\ ExitedWithSuccess)
             => /\ op_result'.status = "Ok"
                /\ interrupted' = interrupted]_vars

\* C26, amended: a private function that has waited for its child and got a
\* success status returns Ok, with the captured output in the quiet modes,
\* whatever the interruption flag was before the spawn and whatever it became
\* since, and the operation then returns Ok; when the child has exited with
\* success but the caller's writer or the wait fails, the function returns
\* that System failure; in none of these cases is the flag changed or
\* Interrupted returned.
C26_SuccessIgnoresFlag ==
    [][/\ (RunReturns /\ ExitedWithSuccess)
             => /\ interrupted' = interrupted
                /\ run_result' # ErrOf(Interrupted)
                /\ dpc = "handle" => run_result' = OkOf(RunValue(Mode, child_stdout))
                /\ dpc # "handle"
                      => /\ dpc \in {"write", "wait"}
                         /\ run_result'.status = "Err"
                         /\ run_result'.failure.kind = "System"
       /\ (OperationReturns /\ ExitedWithSuccess)
             => /\ op_result'.status = "Ok"
                /\ op_result' # ErrOf(Interrupted)
                /\ interrupted' = interrupted]_vars

\* the shell exited with success and spawn_shell returned Ok although the
\* flag, clear before the spawn, is set
C26_Witness ==
    /\ OperationReturned
    /\ ChildSucceeded
    /\ Mode = "run_attach"
    /\ ~invoked_interrupted
    /\ ~was_interrupted
    /\ interrupted
    /\ op_result = OkOf(Unit)

---------------------------------------------------------------------------
(* C27: copy_from_container and its failures *)

\* the number of paths whose iteration is over
PathsDone == Len(op.paths) - Len(todo)

\* the step in which copy_from_container returns a failure
CopyFails ==
    /\ op.name = "copy_from_container"
    /\ dpc # "returned"
    /\ dpc' = "returned"
    /\ op_result'.status = "Err"

\* the i-th copy-out was `container cp <container>:<source_dir>/<path i> ..`
IsCopyOutOf(a, path) ==
    /\ Len(a) = 4
    /\ a[1] = "container"
    /\ a[2] = "cp"
    /\ a[3] = Container \o ":" \o to_string_lossy(join(SourceDir, path))

\* how the message of the failure begins, by the call that failed (outside
\* the walk)
FailedCall ==
    CASE dpc = "next_path" -> "Unable to create temporary directory."
      [] dpc = "create_dir_all" -> "Unable to create directory "
      [] dpc = "rename" -> "Unable to move file "

\* the entries of the current path that the walk has handled
Walked ==
    {r \in DOMAIN op.contents[CurrentPath] :
        /\ \A n \in 0..(Len(r) - 1) : op.contents[CurrentPath][SubSeq(r, 1, n)] # Locked
        /\ [path |-> r, error |-> None] \notin Range(entries)}

\* C27: copy_from_container starts its copy-outs in the order of the paths,
\* at most one for each path and none before the paths before it are done; a
\* failure of tempdir, of the copy-out child (Interrupted included), of
\* metadata, create_dir_all, the walk or rename is returned by the step it
\* arises in, as that failure; that step starts no copy-out, and it leaves
\* the destination directory as it was: the earlier paths are there with
\* the contents the container holds, and so is every entry of the current
\* path that the walk had handled.
C27_FirstFailureReturnsNoRollback ==
    [][/\ op.name = "copy_from_container"
             => /\ Len(copied) \in {PathsDone, PathsDone + 1}
                /\ Len(copied) <= Len(op.paths)
                /\ dpc = "next_path" => Len(copied) = PathsDone
                /\ \A i \in DOMAIN copied : IsCopyOutOf(copied[i], op.paths[i])
       /\ CopyFails
             => /\ copied' = copied
                /\ todo' = todo
                /\ todo # <<>>
                /\ op_result'.failure.kind \in {"System", "Interrupted"}
                /\ (dpc = "run_returned" /\ run_result.status = "Err")
                      => op_result' = run_result
                /\ (dpc = "run_returned" /\ run_result.status = "Ok")
                      => op_result'.failure.message[1]
                            = "Unable to retrieve filesystem metadata for path "
                /\ dpc \in {"next_path", "create_dir_all", "rename"}
                      => op_result'.failure.message[1] = FailedCall
                /\ dpc = "walk"
                      => op_result'.failure.message[1] \in
                            {"Unable to traverse directory ", "Unable to create directory ",
                             "Unable to move file "}
                /\ TreeAt(fs', DestinationDir) = TreeAt(fs, DestinationDir)
                /\ \A i \in 1..PathsDone : Delivered(op.paths[i])
                /\ dpc = "walk"
                      => \A r \in Walked :
                            /\ Destination \o r \in DOMAIN fs'
                            /\ fs'[Destination \o r] =
                                  IF is_dir(op.contents[CurrentPath], r) THEN Dir
                                  ELSE op.contents[CurrentPath][r]]_vars

\* the second of two paths failed in the walk after a directory had been
\* created at the destination: the first path and that directory are there,
\* the temporary directory is gone, and two copy-outs were started
C27_Witness ==
    /\ OperationReturned
    /\ op.name = "copy_from_container"
    /\ ops_done = 1
    /\ op_result.status = "Err"
    /\ op_result.failure.kind = "System"
    /\ op_result.failure.message[1] = "Unable to move file "
    /\ Len(op.paths) = 2
    /\ Len(todo) = 1
    /\ Len(copied) = 2
    /\ Delivered(op.paths[1])
    /\ Len(entries) \in 1..3
    /\ is_dir(fs, join(DestinationDir, todo[1]))
    /\ \A n \in 1..temps : TempDirPath(n) \notin DOMAIN fs

====
